---- MODULE Spec2Model ----
(***************************************************************************)
(* State-machine model of gallery_bot.py: the persisted JSON document      *)
(* (DATA_FILE), the per-user context.user_data cursor, and the handlers    *)
(* that load_data / mutate / save_data it.                                 *)
(*                                                                         *)
(* Python dicts are functions with a finite domain (a missing top-level    *)
(* key such as "chat_requests" is the empty dict, which is what every      *)
(* data.get(key, {}) in the source reads).  Python lists are sequences.    *)
(* Identity strings are TLA+ strings; the lexicographic min()/max() of the *)
(* gallery key is computed on their code points, not assumed.              *)
(***************************************************************************)
EXTENDS Integers, Sequences, FiniteSets, TLC

VARIABLES
    disk,       \* contents of DATA_FILE, the one shared document
    user_data,  \* context.user_data of every Telegram user (transient cursor)
    tasks,      \* handler coroutines suspended at an await (concurrent dispatch)
    last        \* what the most recent handler run did and answered

vars == <<disk, user_data, tasks, last>>

(***************************************************************************)
(* Bounds of the model                                                     *)
(***************************************************************************)
\* Transport message ids handed out by send_message range over 1..MaxMsgId.
MaxMsgId == 2
\* handle_file adds an item to a gallery of fewer than MaxFiles items.
MaxFiles == 2
\* The gallery whose items are removed starts with InitFiles items.
InitFiles == 3

(***************************************************************************)
(* Identities                                                              *)
(***************************************************************************)
\* Telegram numeric ids of the three users of the model.  10 sorts before 2
\* and 9 as a string, after them as a number.
TgIds == {2, 9, 10}

Digits == <<"0", "1", "2", "3", "4", "5", "6", "7", "8", "9">>

RECURSIVE str(_)
\* str(n) of a non-negative integer: its decimal digits.
str(n) == IF n < 10 THEN Digits[n + 1]
          ELSE str(n \div 10) \o Digits[(n % 10) + 1]

RECURSIVE Ord(_)
\* The code points of the characters of str(n).
Ord(n) == IF n < 10 THEN <<48 + n>>
          ELSE Ord(n \div 10) \o <<48 + (n % 10)>>

\* get_user_id: the id of the sender of an update, as a string.
get_user_id(tg) == str(tg)

\* get_username: user.username of the sender.
get_username(tg) ==
    CASE tg = 2  -> "alice"
      [] tg = 9  -> "bob"
      [] tg = 10 -> "carol"

UserIds == {get_user_id(tg) : tg \in TgIds}

\* The Telegram ids whose pair keys are computed: those of the three users
\* and ids that are prefixes of one another as strings.
KeyTgIds == TgIds \cup {1, 11, 21}

\* int(user_id): the chat id a notification is sent to.
int(s) == CHOOSE tg \in KeyTgIds : str(tg) = s

None == "None"

(***************************************************************************)
(* Python helpers                                                          *)
(***************************************************************************)
RECURSIVE SeqLt(_, _)
\* Lexicographic order of two sequences of code points.
SeqLt(a, b) ==
    IF a = <<>> THEN b # <<>>
    ELSE IF b = <<>> THEN FALSE
    ELSE IF Head(a) = Head(b) THEN SeqLt(Tail(a), Tail(b))
    ELSE Head(a) < Head(b)

\* The code points of every identity string.
OrdOf == [s \in {str(tg) : tg \in KeyTgIds} |-> Ord(int(s))]

\* a < b on two identity strings: Python compares strings by code point.
StrLt(a, b) == SeqLt(OrdOf[a], OrdOf[b])

\* A minimum that is always the first argument, for comparison.
PyMin_First(a, b) == a

\* min(a, b) and max(a, b) of two strings.
PyMin(a, b) == IF StrLt(b, a) THEN b ELSE a
PyMax(a, b) == IF StrLt(a, b) THEN b ELSE a

\* d[k] = v
Put(d, k, v) == [x \in (DOMAIN d) \cup {k} |-> IF x = k THEN v ELSE d[x]]
\* del d[k]
Del(d, k) == [x \in (DOMAIN d) \ {k} |-> d[x]]
\* the empty dict
EmptyDict == <<>>

\* k in lst, for a Python list
InList(k, lst) == \E i \in 1..Len(lst) : lst[i] = k

\* A removal that drops the last item whatever the index, for comparison.
DelAt_Last(lst, i) == [j \in 1..(Len(lst) - 1) |-> lst[j]]

\* del lst[i] with a 0-based index i
DelAt(lst, i) == [j \in 1..(Len(lst) - 1) |-> IF j <= i THEN lst[j] ELSE lst[j + 1]]

\* f"{min(user_id, friend_id)}_{max(user_id, friend_id)}"
GalleryIdOf ==
    [a \in DOMAIN OrdOf, b \in DOMAIN OrdOf |-> PyMin(a, b) \o "_" \o PyMax(a, b)]

gallery_id(user_id, friend_id) == GalleryIdOf[user_id, friend_id]

(***************************************************************************)
(* The Store                                                               *)
(***************************************************************************)
\* What load_data returns when DATA_FILE does not exist.
EmptyData ==
    [users         |-> EmptyDict,
     galleries     |-> EmptyDict,
     invites       |-> EmptyDict,
     chat_requests |-> EmptyDict,
     active_chats  |-> EmptyDict,
     banned_users  |-> <<>>]

\* load_data(): the document as currently on disk.
load_data == disk

\* save_data(data): the document on disk becomes data.
save_data(data) == disk' = data

\* The record a handler leaves behind: which handler ran for which user with
\* which callback argument, and the outcome it answered.
Did(op, tg, arg, out) == [op |-> op, user |-> get_user_id(tg), arg |-> arg, out |-> out]

\* The same for a handler whose callback data also carries an item index.
DidAt(op, tg, arg, file_index, out) ==
    [op |-> op, user |-> get_user_id(tg), arg |-> arg, out |-> out, index |-> file_index]

NoUserData ==
    [waiting_for        |-> None,
     file_friend_id     |-> None,
     file_name          |-> None,
     file_comment       |-> None,
     rename_friend_id   |-> None,
     comment_friend_id  |-> None,
     comment_file_index |-> None]


(***************************************************************************)
(* Registration and the relationship graph                                 *)
(***************************************************************************)
\* The record /start, the restart control and accept_invite create for a user.
NewUser(username) == [username |-> username, friends |-> <<>>, nicknames |-> EmptyDict]

\* start: registers the sender when unknown (a banned sender is turned away
\* first); an already known sender is left as is.
StartData(data, tg) ==
    IF get_user_id(tg) \notin DOMAIN data.users
    THEN [data EXCEPT !.users = Put(@, get_user_id(tg), NewUser(get_username(tg)))]
    ELSE data

\* is_banned(user_id)
is_banned(user_id) == InList(user_id, load_data.banned_users)

start(tg) ==
    LET data    == load_data
        user_id == get_user_id(tg)
    IN  /\ IF is_banned(user_id)
           THEN /\ UNCHANGED disk
                /\ last' = Did("start", tg, None, "banned")
           ELSE /\ save_data(StartData(data, tg))
                /\ last' = Did("start", tg, None,
                               IF user_id \in DOMAIN data.invites
                               THEN "pending_invite" ELSE "main_menu")
        /\ UNCHANGED <<user_data, tasks>>

\* button_handler, data_str == "restart": registers the sender anew.
RestartData(data, tg) ==
    [data EXCEPT !.users = Put(@, get_user_id(tg), NewUser(get_username(tg)))]

restart(tg) ==
    /\ save_data(RestartData(load_data, tg))
    /\ last' = Did("restart", tg, None, "main_menu")
    /\ UNCHANGED <<user_data, tasks>>

\* A one-sided acceptance, for comparison: only the acceptor's friend list
\* is extended.
AcceptUsers_OneSided(data, tg, from_id) ==
    LET user_id == get_user_id(tg)
    IN  IF ~InList(from_id, data.users[user_id].friends)
        THEN [data.users EXCEPT ![user_id].friends = Append(@, from_id)]
        ELSE data.users

\* An acceptance that appends to both friend lists without looking at them,
\* for comparison.
AcceptUsers_Always(data, tg, from_id) ==
    [data.users EXCEPT ![get_user_id(tg)].friends = Append(@, from_id),
                       ![from_id].friends = Append(@, get_user_id(tg))]

\* accept_invite, the document part: the two friend lists, the lazily created
\* gallery, the invite addressed to the acceptor.
AcceptUsers(data, tg, from_id) ==
    LET user_id == get_user_id(tg)
        u1 == IF user_id \notin DOMAIN data.users
              THEN Put(data.users, user_id, NewUser(get_username(tg)))
              ELSE data.users
        u2 == IF from_id \notin DOMAIN u1
              THEN Put(u1, from_id, NewUser("unknown"))
              ELSE u1
        u3 == IF ~InList(from_id, u2[user_id].friends)
              THEN [u2 EXCEPT ![user_id].friends = Append(@, from_id)]
              ELSE u2
    IN  IF ~InList(user_id, u3[from_id].friends)
        THEN [u3 EXCEPT ![from_id].friends = Append(@, user_id)]
        ELSE u3

\* An acceptance that always starts the pair's gallery afresh, for
\* comparison.
AcceptGalleries_Reset(data, tg, from_id) ==
    Put(data.galleries, gallery_id(get_user_id(tg), from_id),
        [users |-> <<get_user_id(tg), from_id>>, files |-> <<>>])

AcceptGalleries(data, tg, from_id) ==
    LET user_id == get_user_id(tg)
        gid     == gallery_id(user_id, from_id)
    IN  IF gid \notin DOMAIN data.galleries
        THEN Put(data.galleries, gid, [users |-> <<user_id, from_id>>, files |-> <<>>])
        ELSE data.galleries

AcceptInvites(data, tg) ==
    IF get_user_id(tg) \in DOMAIN data.invites
    THEN Del(data.invites, get_user_id(tg))
    ELSE data.invites

AcceptInviteData(data, tg, from_id) ==
    [data EXCEPT !.users     = AcceptUsers(data, tg, from_id),
                 !.galleries = AcceptGalleries(data, tg, from_id),
                 !.invites   = AcceptInvites(data, tg)]

\* accept_invite(update, context, from_id): the sender presses "accept" on an
\* invitation notice that names from_id.  The notice to from_id may fail; the
\* failure is swallowed.
\* An acceptance that is undone when the notice to the inviter fails, for
\* comparison.
accept_invite_RolledBack(tg, from_id) ==
    /\ \E notified \in BOOLEAN :
          /\ IF notified
             THEN save_data(AcceptInviteData(load_data, tg, from_id))
             ELSE UNCHANGED disk
          /\ last' = Did("accept_invite", tg, from_id,
                         IF notified THEN "accepted" ELSE "accepted_notice_failed")
    /\ UNCHANGED <<user_data, tasks>>

accept_invite(tg, from_id) ==
    /\ save_data(AcceptInviteData(load_data, tg, from_id))
    /\ \E notified \in BOOLEAN :
          last' = Did("accept_invite", tg, from_id,
                      IF notified THEN "accepted" ELSE "accepted_notice_failed")
    /\ UNCHANGED <<user_data, tasks>>

\* decline_invite(update, context, from_id)
DeclineInviteData(data, tg) ==
    IF get_user_id(tg) \in DOMAIN data.invites
    THEN [data EXCEPT !.invites = Del(@, get_user_id(tg))]
    ELSE data

decline_invite(tg, from_id) ==
    /\ save_data(DeclineInviteData(load_data, tg))
    /\ last' = Did("decline_invite", tg, from_id, "declined")
    /\ UNCHANGED <<user_data, tasks>>


(***************************************************************************)
(* Text input                                                              *)
(***************************************************************************)
X10 == "xxxxxxxxxx"
X50 == X10 \o X10 \o X10 \o X10 \o X10
\* Texts of 21, 26, 151 and 201 characters: one more than each length limit.
Text21  == X10 \o X10 \o "x"
Text26  == X10 \o X10 \o "xxxxxx"
Text151 == X50 \o X50 \o X50 \o "x"
Text201 == X50 \o X50 \o X50 \o X50 \o "x"

\* The text messages a user sends in the model.
Texts == {"trip", " fun ", "@Bob", "nobody", Text21, Text26, Text151, Text201}

\* The content kinds file_handler is registered for.
MediaKinds == {"photo", "document", "video", "voice", "sticker"}

\* Transport handles of uploaded content.
FileIds == {"f1", "f2"}

\* text.strip(), on the texts of the model (only " fun " has outer blanks).
strip(text) == IF text = " fun " THEN "fun" ELSE text

\* text.lstrip("@"), on the texts of the model.
lstrip_at(text) == IF text = "@Bob" THEN "Bob" ELSE text

\* text.lower(), on the texts and user names of the model.
lower(text) == IF text = "Bob" THEN "bob" ELSE text

(***************************************************************************)
(* context.user_data                                                       *)
(***************************************************************************)
\* context.user_data[key] = value, for the sender's own user_data
SetUserData(tg, changes) ==
    user_data' = [user_data EXCEPT ![get_user_id(tg)] =
                     [k \in DOMAIN @ |-> IF k \in DOMAIN changes THEN changes[k] ELSE @[k]]]

waiting_for(tg) == user_data[get_user_id(tg)].waiting_for

(***************************************************************************)
(* Adding a friend: invitations                                            *)
(***************************************************************************)
\* add_friend_prompt
add_friend_prompt(tg) ==
    /\ SetUserData(tg, [waiting_for |-> "friend_username"])
    /\ last' = Did("add_friend_prompt", tg, None, "prompt")
    /\ UNCHANGED <<disk, tasks>>

\* The user ids whose stored username matches the typed one, ignoring case.
Resolve(data, username) ==
    {uid \in DOMAIN data.users : lower(data.users[uid].username) = lower(username)}

\* A friend list that is never read, for comparison.
FriendsOf_Unread(data, user_id) == <<>>

\* data["users"].get(user_id, {}).get("friends", [])
FriendsOf(data, user_id) ==
    IF user_id \in DOMAIN data.users THEN data.users[user_id].friends ELSE <<>>

\* An invite that is stored only when none is addressed to friend_id, for
\* comparison.
InviteData_KeepFirst(data, tg, friend_id) ==
    IF friend_id \in DOMAIN data.invites THEN data
    ELSE [data EXCEPT !.invites = Put(@, friend_id,
             [from_id |-> get_user_id(tg), from_username |-> get_username(tg)])]

\* The invite handle_friend_username stores for friend_id.
InviteData(data, tg, friend_id) ==
    [data EXCEPT !.invites = Put(@, friend_id,
        [from_id |-> get_user_id(tg), from_username |-> get_username(tg)])]

\* handle_friend_username: the text typed at the "friend_username" stage.
\* User names are unique in the model, so the loop's first match is the match.
handle_friend_username(tg, text) ==
    LET username == lstrip_at(strip(text))
        data     == load_data
        user_id  == get_user_id(tg)
        found    == Resolve(data, username)
        friend_id == CHOOSE uid \in found : TRUE
    IN  /\ SetUserData(tg, [waiting_for |-> None])
        /\ UNCHANGED tasks
        /\ IF found = {}
           THEN /\ UNCHANGED disk
                /\ last' = Did("handle_friend_username", tg, None, "unknown_handle")
           ELSE IF friend_id = user_id
           THEN /\ UNCHANGED disk
                /\ last' = Did("handle_friend_username", tg, friend_id, "self_invite")
           ELSE IF InList(friend_id, FriendsOf(data, user_id))
           THEN /\ UNCHANGED disk
                /\ last' = Did("handle_friend_username", tg, friend_id, "already_friends")
           ELSE /\ save_data(InviteData(data, tg, friend_id))
                /\ \E delivered \in BOOLEAN :
                      last' = Did("handle_friend_username", tg, friend_id,
                                  IF delivered THEN "invite_sent" ELSE "invite_not_delivered")

(***************************************************************************)
(* Renaming a friend                                                       *)
(***************************************************************************)
MAX_NICKNAME_LENGTH == 20

rename_friend_prompt(tg, friend_id) ==
    /\ SetUserData(tg, [waiting_for |-> "friend_nickname", rename_friend_id |-> friend_id])
    /\ last' = Did("rename_friend_prompt", tg, friend_id, "prompt")
    /\ UNCHANGED <<disk, tasks>>

NicknameData(data, user_id, friend_id, nickname) ==
    [data EXCEPT !.users[user_id].nicknames = Put(@, friend_id, nickname)]

\* handle_friend_nickname: the text typed at the "friend_nickname" stage.  An
\* unregistered sender makes data["users"][user_id] raise; nothing is saved.
handle_friend_nickname(tg, text) ==
    LET nickname  == strip(text)
        friend_id == user_data[get_user_id(tg)].rename_friend_id
        data      == load_data
        user_id   == get_user_id(tg)
    IN  /\ SetUserData(tg, [waiting_for |-> None])
        /\ UNCHANGED tasks
        /\ IF Len(nickname) > MAX_NICKNAME_LENGTH
           THEN /\ UNCHANGED disk
                /\ last' = Did("handle_friend_nickname", tg, friend_id, "too_long")
           ELSE IF user_id \notin DOMAIN data.users
           THEN /\ UNCHANGED disk
                /\ last' = Did("handle_friend_nickname", tg, friend_id, "raised")
           ELSE /\ save_data(NicknameData(data, user_id, friend_id, nickname))
                /\ last' = Did("handle_friend_nickname", tg, friend_id, "renamed")


(***************************************************************************)
(* Adding a file: name, comment, content                                   *)
(***************************************************************************)
MAX_NAME_LENGTH == 25
MAX_COMMENT_LENGTH == 200
MAX_NEW_COMMENT_LENGTH == 150

\* add_file_prompt
add_file_prompt(tg, friend_id) ==
    /\ SetUserData(tg, [waiting_for |-> "file_name", file_friend_id |-> friend_id])
    /\ last' = Did("add_file_prompt", tg, friend_id, "prompt")
    /\ UNCHANGED <<disk, tasks>>

\* A handle_file_name that asks again at the same stage when the name is too
\* long, for comparison.
handle_file_name_SameStage(tg, text) ==
    LET name      == strip(text)
        friend_id == user_data[get_user_id(tg)].file_friend_id
    IN  /\ IF Len(name) > MAX_NAME_LENGTH
           THEN /\ UNCHANGED user_data
                /\ last' = Did("handle_file_name", tg, friend_id, "too_long")
           ELSE /\ SetUserData(tg, [file_name |-> name, waiting_for |-> "file_comment"])
                /\ last' = Did("handle_file_name", tg, friend_id, "prompt")
        /\ UNCHANGED <<disk, tasks>>

\* handle_file_name: the text typed at the "file_name" stage.  On a name
\* that is too long the refusal is sent first and the stage reset after it,
\* so a refusal that raises leaves the stage as it was.
handle_file_name(tg, text) ==
    LET name      == strip(text)
        friend_id == user_data[get_user_id(tg)].file_friend_id
    IN  /\ IF Len(name) > MAX_NAME_LENGTH
           THEN \E replied \in BOOLEAN :
                   IF replied
                   THEN /\ SetUserData(tg, [waiting_for |-> None])
                        /\ last' = Did("handle_file_name", tg, friend_id, "too_long")
                   ELSE /\ UNCHANGED user_data
                        /\ last' = Did("handle_file_name", tg, friend_id, "raised")
           ELSE /\ SetUserData(tg, [file_name |-> name, waiting_for |-> "file_comment"])
                /\ last' = Did("handle_file_name", tg, friend_id, "prompt")
        /\ UNCHANGED <<disk, tasks>>

\* handle_file_comment: the text typed at the "file_comment" stage; the
\* refusal precedes the reset of the stage as in handle_file_name.
handle_file_comment(tg, text) ==
    LET comment   == strip(text)
        friend_id == user_data[get_user_id(tg)].file_friend_id
    IN  /\ IF Len(comment) > MAX_COMMENT_LENGTH
           THEN \E replied \in BOOLEAN :
                   IF replied
                   THEN /\ SetUserData(tg, [waiting_for |-> None])
                        /\ last' = Did("handle_file_comment", tg, friend_id, "too_long")
                   ELSE /\ UNCHANGED user_data
                        /\ last' = Did("handle_file_comment", tg, friend_id, "raised")
           ELSE /\ SetUserData(tg, [file_comment |-> comment, waiting_for |-> "file"])
                /\ last' = Did("handle_file_comment", tg, friend_id, "prompt")
        /\ UNCHANGED <<disk, tasks>>

\* button_handler, data_str "skip_comment_<friend_id>"
skip_comment(tg, friend_id) ==
    /\ SetUserData(tg, [file_comment |-> "", waiting_for |-> "file"])
    /\ last' = Did("skip_comment", tg, friend_id, "prompt")
    /\ UNCHANGED <<disk, tasks>>

\* button_handler, data_str "retry_comment_<friend_id>"
retry_comment(tg, friend_id) ==
    /\ SetUserData(tg, [waiting_for |-> "file_comment"])
    /\ last' = Did("retry_comment", tg, friend_id, "prompt")
    /\ UNCHANGED <<disk, tasks>>

\* The file extension handle_file gives the local copy.
file_ext(kind) ==
    CASE kind = "photo"    -> ".jpg"
      [] kind = "document" -> ".bin"
      [] kind = "video"    -> ".mp4"

\* The file_info handle_file builds (added_date and the time stamp of the
\* local file name are left out; local_path is None when the download failed).
\* An item record that drops the comment, for comparison.
FileInfo_NoComment(tg, kind, file_id, custom_name, comment, gid, downloaded) ==
    [type       |-> kind,
     file_id    |-> file_id,
     name       |-> custom_name,
     comment    |-> "",
     added_by   |-> get_username(tg),
     local_path |-> IF downloaded THEN <<gid, file_ext(kind)>> ELSE None,
     comments   |-> <<>>]

FileInfo(tg, kind, file_id, custom_name, comment, gid, downloaded) ==
    [type       |-> kind,
     file_id    |-> file_id,
     name       |-> custom_name,
     comment    |-> comment,
     added_by   |-> get_username(tg),
     local_path |-> IF downloaded THEN <<gid, file_ext(kind)>> ELSE None,
     comments   |-> <<>>]

\* data.get("galleries", {}).get(gallery_id, {}).get("files", [])
FilesOf(data, gid) ==
    IF gid \in DOMAIN data.galleries THEN data.galleries[gid].files ELSE <<>>

\* handle_file, from the gallery lookup to save_data: the gallery is
\* created when missing and file_info appended, in the snapshot `data`.
AddFileData(data, user_id, friend_id, file_info) ==
    LET gid == gallery_id(user_id, friend_id)
        g1  == IF gid \notin DOMAIN data.galleries
               THEN Put(data.galleries, gid, [users |-> <<user_id, friend_id>>, files |-> <<>>])
               ELSE data.galleries
    IN  [data EXCEPT !.galleries = [g1 EXCEPT ![gid].files = Append(@, file_info)]]

\* user_data.get("file_name", <default name>) and .get("file_comment", "")
custom_name(tg) ==
    IF user_data[get_user_id(tg)].file_name = None THEN "Bez nazvaniya"
    ELSE user_data[get_user_id(tg)].file_name
file_comment(tg) ==
    IF user_data[get_user_id(tg)].file_comment = None THEN ""
    ELSE user_data[get_user_id(tg)].file_comment

\* handle_file run to completion without another handler in between: content
\* of kind `kind` arrives at the "file" stage.  get_file may raise, which ends
\* the handler; a failed download and a failed notice are swallowed.
handle_file(tg, kind, file_id) ==
    LET user_id   == get_user_id(tg)
        friend_id == user_data[user_id].file_friend_id
        data      == load_data
        gid       == gallery_id(user_id, friend_id)
    IN  /\ UNCHANGED tasks
        /\ IF friend_id = None
           THEN /\ SetUserData(tg, [waiting_for |-> None])
                /\ UNCHANGED disk
                /\ last' = Did("handle_file", tg, None, "no_friend")
           ELSE IF kind \notin {"photo", "document", "video"}
           THEN /\ SetUserData(tg, [waiting_for |-> None])
                /\ UNCHANGED disk
                /\ last' = Did("handle_file", tg, friend_id, "unsupported")
           ELSE \E fetched \in BOOLEAN, downloaded \in BOOLEAN, notified \in BOOLEAN :
                IF ~fetched
                THEN /\ SetUserData(tg, [waiting_for |-> None])
                     /\ UNCHANGED disk
                     /\ last' = Did("handle_file", tg, friend_id, "raised")
                ELSE /\ Len(FilesOf(data, gid)) < MaxFiles
                     /\ save_data(AddFileData(data, user_id, friend_id,
                            FileInfo(tg, kind, file_id, custom_name(tg), file_comment(tg),
                                     gid, downloaded)))
                     /\ SetUserData(tg, [waiting_for |-> None, file_comment |-> None,
                                         file_name |-> None])
                     /\ last' = Did("handle_file", tg, friend_id,
                                    IF notified THEN "added" ELSE "added_notice_failed")

(***************************************************************************)
(* Commenting an item                                                      *)
(***************************************************************************)
\* add_comment_prompt, with the 0-based file_index of the control pressed
add_comment_prompt(tg, friend_id, file_index) ==
    /\ SetUserData(tg, [waiting_for |-> "file_new_comment",
                        comment_friend_id |-> friend_id,
                        comment_file_index |-> file_index])
    /\ last' = Did("add_comment_prompt", tg, friend_id, "prompt")
    /\ UNCHANGED <<disk, tasks>>

\* An item holds at most MaxComments later comments in the model: two, so
\* that a comment is appended to a sequence that already has one.
MaxComments == 2

\* A comment that takes the place of the item's comments, for comparison.
NewCommentData_Replace(data, gid, file_index, author, comment_text) ==
    [data EXCEPT !.galleries[gid].files[file_index + 1].comments =
                     <<[author |-> author, text |-> comment_text]>>]

NewCommentData(data, gid, file_index, author, comment_text) ==
    [data EXCEPT !.galleries[gid].files[file_index + 1].comments =
                     Append(@, [author |-> author, text |-> comment_text])]

\* handle_new_comment: the text typed at the "file_new_comment" stage.
handle_new_comment(tg, text) ==
    LET comment_text == strip(text)
        user_id      == get_user_id(tg)
        friend_id    == user_data[user_id].comment_friend_id
        file_index   == user_data[user_id].comment_file_index
        data         == load_data
        gid          == gallery_id(user_id, friend_id)
        files        == FilesOf(data, gid)
    IN  /\ SetUserData(tg, [waiting_for |-> None])
        /\ UNCHANGED tasks
        /\ IF Len(comment_text) > MAX_NEW_COMMENT_LENGTH
           THEN /\ UNCHANGED disk
                /\ last' = Did("handle_new_comment", tg, friend_id, "too_long")
           ELSE IF file_index >= Len(files)
           THEN /\ UNCHANGED disk
                /\ last' = Did("handle_new_comment", tg, friend_id, "not_found")
           ELSE /\ Len(files[file_index + 1].comments) < MaxComments
                /\ save_data(NewCommentData(data, gid, file_index,
                                            get_username(tg), comment_text))
                /\ last' = Did("handle_new_comment", tg, friend_id, "commented")

(***************************************************************************)
(* Menus that prompts offer as their Cancel control                        *)
(***************************************************************************)
\* show_gallery_menu (callback "gallery"): reads the document, shows the list.
show_gallery_menu(tg) ==
    /\ last' = Did("show_gallery_menu", tg, None, "menu")
    /\ UNCHANGED <<disk, user_data, tasks>>

\* view_gallery (callback "view_gallery_<friend_id>"): only sets the
\* current_gallery / current_friend keys, which no handler reads.
view_gallery(tg, friend_id) ==
    /\ last' = Did("view_gallery", tg, friend_id, "menu")
    /\ UNCHANGED <<disk, user_data, tasks>>

\* show_main_menu (callback "main_menu"): shows the main menu.
show_main_menu(tg) ==
    /\ last' = Did("show_main_menu", tg, None, "menu")
    /\ UNCHANGED <<disk, user_data, tasks>>

(***************************************************************************)
(* Removing a gallery item                                                 *)
(***************************************************************************)
\* confirm_delete_file (callback "delete_file_<friend_id>_<i>"): answers
\* "not found" for an index past the end, and otherwise shows the
\* confirmation whose control is "confirm_del_<friend_id>_<i>".
confirm_delete_file(tg, friend_id, file_index) ==
    LET user_id == get_user_id(tg)
        data    == load_data
        gid     == gallery_id(user_id, friend_id)
        files   == FilesOf(data, gid)
    IN  /\ last' = DidAt("confirm_delete_file", tg, friend_id, file_index,
                         IF file_index >= Len(files) THEN "not_found" ELSE "confirm")
        /\ UNCHANGED <<disk, user_data, tasks>>

\* A removal that is always made in the gallery of alice and bob, for
\* comparison.
DeleteFileData_Shared(data, gid, file_index) ==
    [data EXCEPT !.galleries["2_9"].files = DelAt(@, file_index)]

\* del data["galleries"][gallery_id]["files"][file_index]
DeleteFileData(data, gid, file_index) ==
    [data EXCEPT !.galleries[gid].files = DelAt(@, file_index)]

\* What becomes of the removed item's local copy: there is no local_path,
\* the path names no file any more, os.remove succeeds, or os.remove raises.
ReleaseOutcomes(file_info) ==
    IF file_info.local_path = None THEN {"no_path"}
    ELSE {"absent", "removed", "failed"}

\* delete_file where an os.remove that raises ends the handler, for
\* comparison.
delete_file_Fatal(tg, friend_id, file_index) ==
    LET user_id == get_user_id(tg)
        data    == load_data
        gid     == gallery_id(user_id, friend_id)
        files   == FilesOf(data, gid)
    IN  /\ UNCHANGED <<user_data, tasks>>
        /\ IF file_index >= Len(files)
           THEN /\ UNCHANGED disk
                /\ last' = DidAt("delete_file", tg, friend_id, file_index, "not_found")
           ELSE \E release \in ReleaseOutcomes(files[file_index + 1]), answered \in BOOLEAN :
                /\ IF release = "failed" THEN UNCHANGED disk
                   ELSE save_data(DeleteFileData(data, gid, file_index))
                /\ last' = [op |-> "delete_file", user |-> user_id, arg |-> friend_id,
                            out |-> IF answered THEN "deleted" ELSE "deleted_not_answered",
                            index |-> file_index, release |-> release]

\* delete_file (callback "confirm_del_<friend_id>_<i>"): answers "not found"
\* for an index past the end; otherwise removes the item's local copy when it
\* has one that exists, passing over an os.remove that raises, deletes the
\* item at the index, saves, answers and redraws the gallery.  An answer that
\* raises comes after the save.
delete_file(tg, friend_id, file_index) ==
    LET user_id == get_user_id(tg)
        data    == load_data
        gid     == gallery_id(user_id, friend_id)
        files   == FilesOf(data, gid)
    IN  /\ UNCHANGED <<user_data, tasks>>
        /\ IF file_index >= Len(files)
           THEN /\ UNCHANGED disk
                /\ last' = DidAt("delete_file", tg, friend_id, file_index, "not_found")
           ELSE \E release \in ReleaseOutcomes(files[file_index + 1]), answered \in BOOLEAN :
                /\ save_data(DeleteFileData(data, gid, file_index))
                /\ last' = [op |-> "delete_file", user |-> user_id, arg |-> friend_id,
                            out |-> IF answered THEN "deleted" ELSE "deleted_not_answered",
                            index |-> file_index, release |-> release]


(***************************************************************************)
(* Chat relay handshake                                                    *)
(***************************************************************************)
MsgIds == 1..MaxMsgId

\* A refusal test that looks at the sender's outstanding request only, for
\* comparison.
RequestRefusal_RequestOnly(data, user_id) ==
    IF user_id \in DOMAIN data.chat_requests THEN "already_request" ELSE None

\* start_chat_request, the refusal tests made on the loaded document: the
\* sender's own outstanding request, then the sender's own active chat.
RequestRefusal(data, user_id) ==
    IF user_id \in DOMAIN data.chat_requests THEN "already_request"
    ELSE IF user_id \in DOMAIN data.active_chats THEN "already_chat"
    ELSE None

\* A request that is stored only for an addressee who has neither a request
\* nor a chat of their own, for comparison.
RequestData_IdleTarget(data, user_id, friend_id, message_id) ==
    IF friend_id \in DOMAIN data.chat_requests \/ friend_id \in DOMAIN data.active_chats
    THEN data
    ELSE [data EXCEPT !.chat_requests =
             Put(@, user_id, [to_id |-> friend_id, message_id |-> message_id])]

\* start_chat_request, the request stored once the notice was sent.
RequestData(data, user_id, friend_id, message_id) ==
    [data EXCEPT !.chat_requests =
        Put(@, user_id, [to_id |-> friend_id, message_id |-> message_id])]

\* A start_chat_request that stores the request before it sends the notice,
\* for comparison.
start_chat_request_StoreFirst(tg, friend_id) ==
    LET data    == load_data
        user_id == get_user_id(tg)
    IN  /\ UNCHANGED <<user_data, tasks>>
        /\ IF RequestRefusal(data, user_id) # None
           THEN /\ UNCHANGED disk
                /\ last' = Did("start_chat_request", tg, friend_id,
                               RequestRefusal(data, user_id))
           ELSE \E sent \in BOOLEAN, message_id \in MsgIds, confirmed \in BOOLEAN :
                /\ save_data(RequestData(data, user_id, friend_id, message_id))
                /\ last' = Did("start_chat_request", tg, friend_id,
                               IF ~sent THEN "not_sent"
                               ELSE IF confirmed THEN "requested"
                               ELSE "requested_not_confirmed")

\* start_chat_request run to completion: the notice to friend_id is sent
\* (message_id is the id the transport gave it) or raises; after save_data
\* the confirmation to the sender may raise as well, which the same except
\* clause answers.
start_chat_request(tg, friend_id) ==
    LET data    == load_data
        user_id == get_user_id(tg)
    IN  /\ UNCHANGED <<user_data, tasks>>
        /\ IF RequestRefusal(data, user_id) # None
           THEN /\ UNCHANGED disk
                /\ last' = Did("start_chat_request", tg, friend_id,
                               RequestRefusal(data, user_id))
           ELSE \E sent \in BOOLEAN, message_id \in MsgIds, confirmed \in BOOLEAN :
                IF ~sent
                THEN /\ UNCHANGED disk
                     /\ last' = Did("start_chat_request", tg, friend_id, "not_sent")
                ELSE /\ save_data(RequestData(data, user_id, friend_id, message_id))
                     /\ last' = Did("start_chat_request", tg, friend_id,
                                    IF confirmed THEN "requested" ELSE "requested_not_confirmed")

\* A test that accepts a request of the sender whoever it is addressed to,
\* for comparison.
CancelValid_AnyAddressee(data, user_id, friend_id) ==
    user_id \in DOMAIN data.chat_requests

\* cancel_chat_request, the test on the loaded document
CancelValid(data, user_id, friend_id) ==
    /\ user_id \in DOMAIN data.chat_requests
    /\ data.chat_requests[user_id].to_id = friend_id

CancelData(data, user_id) == [data EXCEPT !.chat_requests = Del(@, user_id)]

\* A cancellation that keeps the request when deleting the notice fails,
\* for comparison.
cancel_chat_request_Fatal(tg, friend_id) ==
    LET data    == load_data
        user_id == get_user_id(tg)
    IN  /\ UNCHANGED <<user_data, tasks>>
        /\ IF CancelValid(data, user_id, friend_id)
           THEN \E retracted \in BOOLEAN :
                   /\ IF retracted THEN save_data(CancelData(data, user_id))
                                   ELSE UNCHANGED disk
                   /\ last' = Did("cancel_chat_request", tg, friend_id,
                                  IF retracted THEN "cancelled" ELSE "cancelled_not_retracted")
           ELSE /\ UNCHANGED disk
                /\ last' = Did("cancel_chat_request", tg, friend_id, "already_handled")

\* cancel_chat_request run to completion; deleting the notice may fail.
cancel_chat_request(tg, friend_id) ==
    LET data    == load_data
        user_id == get_user_id(tg)
    IN  /\ UNCHANGED <<user_data, tasks>>
        /\ IF CancelValid(data, user_id, friend_id)
           THEN /\ save_data(CancelData(data, user_id))
                /\ \E retracted \in BOOLEAN :
                      last' = Did("cancel_chat_request", tg, friend_id,
                                  IF retracted THEN "cancelled" ELSE "cancelled_not_retracted")
           ELSE /\ UNCHANGED disk
                /\ last' = Did("cancel_chat_request", tg, friend_id, "already_handled")

\* accept_chat, the document part
AcceptChatData(data, user_id, from_id) ==
    [data EXCEPT !.chat_requests = IF from_id \in DOMAIN @ THEN Del(@, from_id) ELSE @,
                 !.active_chats  = Put(Put(@, user_id, from_id), from_id, user_id)]

\* accept_chat(update, context, from_id)
accept_chat(tg, from_id) ==
    /\ save_data(AcceptChatData(load_data, get_user_id(tg), from_id))
    /\ \E notified \in BOOLEAN :
          last' = Did("accept_chat", tg, from_id,
                      IF notified THEN "accepted" ELSE "accepted_notice_failed")
    /\ UNCHANGED <<user_data, tasks>>

\* A decline that leaves every request in place, for comparison.
DeclineChatData_Keep(data, from_id) == data

\* decline_chat, the document part
DeclineChatData(data, from_id) ==
    IF from_id \in DOMAIN data.chat_requests
    THEN [data EXCEPT !.chat_requests = Del(@, from_id)]
    ELSE data

\* decline_chat(update, context, from_id)
decline_chat(tg, from_id) ==
    /\ save_data(DeclineChatData(load_data, from_id))
    /\ last' = Did("decline_chat", tg, from_id, "declined")
    /\ UNCHANGED <<user_data, tasks>>

\* end_chat, the document part
EndChatData(data, user_id, partner_id) ==
    LET a1 == IF user_id \in DOMAIN data.active_chats
              THEN Del(data.active_chats, user_id) ELSE data.active_chats
        a2 == IF partner_id \in DOMAIN a1 THEN Del(a1, partner_id) ELSE a1
    IN  [data EXCEPT !.active_chats = a2]

\* end_chat(update, context, partner_id)
end_chat(tg, partner_id) ==
    /\ save_data(EndChatData(load_data, get_user_id(tg), partner_id))
    /\ \E notified \in BOOLEAN :
          last' = Did("end_chat", tg, partner_id,
                      IF notified THEN "ended" ELSE "ended_notice_failed")
    /\ UNCHANGED <<user_data, tasks>>

\* data.get("active_chats", {}).get(user_id)
PartnerOf(data, user_id) ==
    IF user_id \in DOMAIN data.active_chats THEN data.active_chats[user_id] ELSE None

\* handle_chat_message: forwards the event to the partner of an active chat
\* (the send may fail) and says whether there was one.  `via` is the handler
\* that received the event.
handle_chat_message(via, tg) ==
    LET partner_id == PartnerOf(load_data, get_user_id(tg))
    IN  /\ UNCHANGED <<disk, user_data, tasks>>
        /\ IF partner_id = None
           THEN last' = Did(via, tg, None, "ignored")
           ELSE \E sent \in BOOLEAN :
                   last' = Did(via, tg, partner_id,
                               IF sent THEN "relayed" ELSE "relay_failed")

(***************************************************************************)
(* Dispatch of text and content messages                                   *)
(***************************************************************************)
\* message_handler: a text message (the administrator's stages are not part
\* of this model, so handle_admin_broadcast answers False).
message_handler(tg, text) ==
    CASE waiting_for(tg) = "friend_username"  -> handle_friend_username(tg, text)
      [] waiting_for(tg) = "friend_nickname"  -> handle_friend_nickname(tg, text)
      [] waiting_for(tg) = "file_name"        -> handle_file_name(tg, text)
      [] waiting_for(tg) = "file_comment"     -> handle_file_comment(tg, text)
      [] waiting_for(tg) = "file_new_comment" -> handle_new_comment(tg, text)
      [] OTHER                                -> handle_chat_message("message_handler", tg)

\* file_handler: a photo, document, video, voice message or sticker.
file_handler(tg, kind, file_id) ==
    IF waiting_for(tg) = "file"
    THEN handle_file(tg, kind, file_id)
    ELSE handle_chat_message("file_handler", tg)


(***************************************************************************)
(* Initial documents                                                       *)
(***************************************************************************)
\* The document once the three users have sent /start.
RegisteredData == StartData(StartData(StartData(EmptyData, 2), 9), 10)

\* The document once, in addition, every pair has become friends by an
\* accepted invitation (bob accepted alice, carol accepted alice and bob).
FriendsData ==
    AcceptInviteData(AcceptInviteData(AcceptInviteData(RegisteredData, 9, str(2)),
                                      10, str(2)), 10, str(9))

NoTasks == EmptyDict

Nothing == [op |-> None, user |-> None, arg |-> None, out |-> None]

\* The other users, as callback arguments.
Others(tg) == UserIds \ {get_user_id(tg)}

(***************************************************************************)
(* SpecChat: the chat handshake among three befriended users, one handler  *)
(* at a time (Application.builder().build() dispatches updates one by      *)
(* one).  Every user's Telegram chat still shows earlier notices of every  *)
(* kind: request notices whose retraction failed, the end-of-chat controls *)
(* of relayed messages, cancel controls of answered requests, and the      *)
(* gallery menu with its start_chat controls.  Hence any chat control      *)
(* naming another user can be pressed in any state.                        *)
(***************************************************************************)
InitChat ==
    /\ disk = FriendsData
    /\ user_data = [u \in UserIds |-> NoUserData]
    /\ tasks = NoTasks
    /\ last = Nothing

NextChat ==
    \/ \E tg \in TgIds : \E friend_id \in Others(tg) : start_chat_request(tg, friend_id)
    \/ \E tg \in TgIds : \E friend_id \in Others(tg) : cancel_chat_request(tg, friend_id)
    \/ \E tg \in TgIds : \E from_id \in Others(tg) : accept_chat(tg, from_id)
    \/ \E tg \in TgIds : \E from_id \in Others(tg) : decline_chat(tg, from_id)
    \/ \E tg \in TgIds : \E partner_id \in Others(tg) : end_chat(tg, partner_id)
    \/ \E tg \in TgIds : message_handler(tg, "trip")
    \/ \E tg \in TgIds : file_handler(tg, "voice", "f1")

SpecChat == InitChat /\ [][NextChat]_vars

\* SpecChatFresh: the same handshake when a control is pressed only on the
\* notice of the request or session that is current: accept, decline and
\* cancel while that request is pending, end while that chat is active.
NextChatFresh ==
    \/ \E tg \in TgIds : \E friend_id \in Others(tg) : start_chat_request(tg, friend_id)
    \/ \E tg \in TgIds : \E friend_id \in Others(tg) :
          /\ CancelValid(disk, get_user_id(tg), friend_id)
          /\ cancel_chat_request(tg, friend_id)
    \/ \E tg \in TgIds : \E from_id \in Others(tg) :
          /\ CancelValid(disk, from_id, get_user_id(tg))
          /\ accept_chat(tg, from_id)
    \/ \E tg \in TgIds : \E from_id \in Others(tg) :
          /\ CancelValid(disk, from_id, get_user_id(tg))
          /\ decline_chat(tg, from_id)
    \/ \E tg \in TgIds : \E partner_id \in Others(tg) :
          /\ PartnerOf(disk, get_user_id(tg)) = partner_id
          /\ end_chat(tg, partner_id)
    \/ \E tg \in TgIds : message_handler(tg, "trip")
    \/ \E tg \in TgIds : file_handler(tg, "voice", "f1")

SpecChatFresh == InitChat /\ [][NextChatFresh]_vars


(***************************************************************************)
(* SpecFriends: registration and invitations, one handler at a time.  All  *)
(* three users are registered; alice and bob act, carol only receives      *)
(* invitations.  The chats of alice and bob still show earlier invitation  *)
(* notices from each other (show_pending_invites repeats the notice on     *)
(* every /start, and answering one copy leaves the others), so each of     *)
(* them can press accept_invite and decline_invite for the other in any    *)
(* state.                                                                  *)
(***************************************************************************)
\* The names typed at the "friend_username" stage.
Handles == {"alice", "@Bob", "carol", "nobody"}

\* The users who act in SpecFriends, and for each the other one.
FriendActors == {2, 9}
OtherActors(tg) == {get_user_id(t) : t \in FriendActors \ {tg}}

InitFriends ==
    /\ disk = RegisteredData
    /\ user_data = [u \in UserIds |-> NoUserData]
    /\ tasks = NoTasks
    /\ last = Nothing

NextFriends ==
    \/ \E tg \in FriendActors : start(tg)
    \/ \E tg \in FriendActors : restart(tg)
    \/ \E tg \in FriendActors : add_friend_prompt(tg)
    \/ \E tg \in FriendActors : \E text \in Handles : message_handler(tg, text)
    \/ \E tg \in FriendActors : \E from_id \in OtherActors(tg) : accept_invite(tg, from_id)
    \/ \E tg \in FriendActors : \E from_id \in OtherActors(tg) : decline_invite(tg, from_id)

SpecFriends == InitFriends /\ [][NextFriends]_vars

\* An invite from from_id addressed to user_id is pending in data.
InvitePending(data, from_id, user_id) ==
    /\ user_id \in DOMAIN data.invites
    /\ data.invites[user_id].from_id = from_id

\* SpecFriendsFresh: the same when an invitation notice is answered only
\* while the invitation it shows is pending.
NextFriendsFresh ==
    \/ \E tg \in FriendActors : start(tg)
    \/ \E tg \in FriendActors : restart(tg)
    \/ \E tg \in FriendActors : add_friend_prompt(tg)
    \/ \E tg \in FriendActors : \E text \in Handles : message_handler(tg, text)
    \/ \E tg \in FriendActors : \E from_id \in OtherActors(tg) :
          /\ InvitePending(disk, from_id, get_user_id(tg))
          /\ accept_invite(tg, from_id)
    \/ \E tg \in FriendActors : \E from_id \in OtherActors(tg) :
          /\ InvitePending(disk, from_id, get_user_id(tg))
          /\ decline_invite(tg, from_id)

SpecFriendsFresh == InitFriends /\ [][NextFriendsFresh]_vars


(***************************************************************************)
(* SpecFlow: the multi-step input flows of one user, one handler at a      *)
(* time.  alice is in an active chat with bob (bob asked, alice accepted)  *)
(* and walks through the add-friend, rename, add-file and comment flows    *)
(* for her friend bob.  At each stage she types a short text or one that   *)
(* is one character over that stage's limit, and sends a photo or a        *)
(* sticker.  A control is pressed on a notice that has offered it; the     *)
(* comment control she presses is that of the first item while it has no   *)
(* comment yet.                                                            *)
(***************************************************************************)
ChattingData ==
    AcceptChatData(RequestData(FriendsData, str(9), str(2), 1), str(2), str(9))

\* The length limit of the stages that validate a text.
Limit(stage) ==
    CASE stage = "friend_nickname"  -> MAX_NICKNAME_LENGTH
      [] stage = "file_name"        -> MAX_NAME_LENGTH
      [] stage = "file_comment"     -> MAX_COMMENT_LENGTH
      [] stage = "file_new_comment" -> MAX_NEW_COMMENT_LENGTH

TextStages == {"friend_nickname", "file_name", "file_comment", "file_new_comment"}

\* The text one character over the limit of a stage.
TooLong(stage) ==
    CASE stage = "friend_nickname"  -> Text21
      [] stage = "file_name"        -> Text26
      [] stage = "file_comment"     -> Text201
      [] stage = "file_new_comment" -> Text151

\* What the user types at the stage she is at.
FlowTexts(tg) ==
    IF waiting_for(tg) \in TextStages THEN {"trip", TooLong(waiting_for(tg))} ELSE {"trip"}

\* The content the user sends: a supported and an unsupported kind.
FlowKinds == {"photo", "sticker"}

\* The refusal of an item comment is the notice that offers the retry control.
CommentRefused(tg) ==
    /\ last.user = get_user_id(tg)
    /\ last.op = "handle_file_comment"
    /\ last.out = "too_long"

\* An item name has been accepted and not yet used: the comment prompt that
\* followed it, with its skip control, is in the user's chat.
CommentPrompted(tg) == user_data[get_user_id(tg)].file_name # None

\* The user has added an item whose comment she typed: the comment prompt
\* she answered by text was not edited, so its skip control is still in her
\* chat (only skip_comment itself replaces the prompt that carries it).
SkipControlLeft(tg, friend_id) ==
    \E k \in DOMAIN FilesOf(disk, gallery_id(get_user_id(tg), friend_id)) :
        LET file_info == FilesOf(disk, gallery_id(get_user_id(tg), friend_id))[k]
        IN  file_info.added_by = get_username(tg) /\ file_info.comment # ""

InitFlow ==
    /\ disk = ChattingData
    /\ user_data = [u \in UserIds |-> NoUserData]
    /\ tasks = NoTasks
    /\ last = Nothing

NextFlow ==
    \/ add_friend_prompt(2)
    \/ rename_friend_prompt(2, str(9))
    \/ add_file_prompt(2, str(9))
    \/ /\ FilesOf(disk, gallery_id(str(2), str(9))) # <<>>
       /\ FilesOf(disk, gallery_id(str(2), str(9)))[1].comments = <<>>
       /\ add_comment_prompt(2, str(9), 0)
    \/ \E text \in FlowTexts(2) : message_handler(2, text)
    \/ \E kind \in FlowKinds : file_handler(2, kind, "f1")
    \/ /\ CommentPrompted(2)
       /\ skip_comment(2, str(9))
    \/ /\ CommentRefused(2)
       /\ retry_comment(2, str(9))
    \/ show_gallery_menu(2)
    \/ view_gallery(2, str(9))
    \/ show_main_menu(2)

SpecFlow == InitFlow /\ [][NextFlow]_vars


(***************************************************************************)
(* SpecStale: alice runs the add-item flow for the gallery she shares with *)
(* bob time after time, typing the comment or skipping it, and presses the *)
(* skip control of a comment prompt that is still in her chat.             *)
(***************************************************************************)
NextStale ==
    \/ add_file_prompt(2, str(9))
    \/ /\ waiting_for(2) \in {"file_name", "file_comment"}
       /\ message_handler(2, "trip")
    \/ /\ CommentPrompted(2) \/ SkipControlLeft(2, str(9))
       /\ skip_comment(2, str(9))
    \/ \E kind \in FlowKinds : file_handler(2, kind, "f1")
    \/ view_gallery(2, str(9))

SpecStale == InitFlow /\ [][NextStale]_vars


(***************************************************************************)
(* SpecGallery: alice and bob remove items of the gallery they share, and  *)
(* alice adds items to it.  A removal control carries the index its item   *)
(* had when the control was drawn; the controls of every screen drawn      *)
(* since the start are in the chats, so an index up to the length the      *)
(* gallery started with can be pressed at any time, and pressed twice.     *)
(***************************************************************************)
RECURSIVE Filled(_, _)
\* The document after alice and bob have added n items in turn to the
\* gallery they share, named item1 .. item<n>.
Filled(data, n) ==
    IF n = 0 THEN data
    ELSE AddFileData(Filled(data, n - 1), str(2), str(9),
                     FileInfo(IF n % 2 = 1 THEN 2 ELSE 9, "photo", "f1",
                              "item" \o str(n), "", gallery_id(str(2), str(9)),
                              n % 2 = 1))

\* The three friends, the gallery of alice and bob filled, and one item in
\* the gallery of alice and carol.
GalleryData ==
    AddFileData(Filled(FriendsData, InitFiles), str(10), str(2),
                FileInfo(10, "document", "f2", "map", "", gallery_id(str(10), str(2)), FALSE))

\* The indices the removal controls drawn so far carry.
FileIndexes == 0..(InitFiles - 1)

InitGallery ==
    /\ disk = GalleryData
    /\ user_data = [u \in UserIds |-> NoUserData]
    /\ tasks = NoTasks
    /\ last = Nothing

NextGallery ==
    \/ \E i \in FileIndexes : confirm_delete_file(2, str(9), i)
    \/ \E i \in FileIndexes : delete_file(2, str(9), i)
    \/ \E i \in FileIndexes : delete_file(9, str(2), i)
    \/ \E i \in FileIndexes : delete_file(2, str(10), i)
    \/ view_gallery(2, str(9))
    \/ add_file_prompt(2, str(9))
    \/ /\ waiting_for(2) = "file_name"
       /\ message_handler(2, "trip")
    \/ /\ CommentPrompted(2)
       /\ skip_comment(2, str(9))
    \/ /\ waiting_for(2) = "file"
       /\ file_handler(2, "photo", "f2")

SpecGallery == InitGallery /\ [][NextGallery]_vars


(***************************************************************************)
(* SpecBan: carol is the administrator and bans or unbans bob, a friend of *)
(* alice and carol, while bob keeps using the bot.                         *)
(***************************************************************************)
\* ADMIN_ID, read from the environment: carol's id in this deployment.
ADMIN_ID == str(10)

\* admin_ban_prompt (callback "admin_ban", dispatched to the administrator
\* only): asks for the id to ban or unban.
admin_ban_prompt(tg) ==
    /\ IF get_user_id(tg) = ADMIN_ID
       THEN /\ SetUserData(tg, [waiting_for |-> "admin_ban"])
            /\ last' = Did("admin_ban_prompt", tg, None, "prompt")
       ELSE /\ UNCHANGED user_data
            /\ last' = Did("admin_ban_prompt", tg, None, "ignored")
    /\ UNCHANGED <<disk, tasks>>

\* lst.remove(k): the list without the first occurrence of k.
Remove(lst, k) ==
    LET i == CHOOSE i \in 1..Len(lst) : lst[i] = k /\ \A j \in 1..(i - 1) : lst[j] # k
    IN  DelAt(lst, i - 1)

\* handle_admin_ban: the document after the id typed is unbanned when it is
\* in banned_users and banned when it is not.
BanData(data, user_id_input) ==
    IF InList(user_id_input, data.banned_users)
    THEN [data EXCEPT !.banned_users = Remove(@, user_id_input)]
    ELSE [data EXCEPT !.banned_users = Append(@, user_id_input)]

\* handle_admin_ban, reached from message_handler when the administrator's
\* cursor is "admin_ban".
handle_admin_ban(tg, text) ==
    LET user_id_input == strip(text)
        data          == load_data
    IN  /\ SetUserData(tg, [waiting_for |-> None])
        /\ save_data(BanData(data, user_id_input))
        /\ last' = Did("handle_admin_ban", tg, user_id_input,
                       IF InList(user_id_input, data.banned_users)
                       THEN "unbanned" ELSE "banned")
        /\ UNCHANGED tasks

InitBan ==
    /\ disk = FriendsData
    /\ user_data = [u \in UserIds |-> NoUserData]
    /\ tasks = NoTasks
    /\ last = Nothing

NextBan ==
    \/ admin_ban_prompt(10)
    \/ /\ waiting_for(10) = "admin_ban"
       /\ handle_admin_ban(10, str(9))
    \/ start(9)
    \/ restart(9)
    \/ start_chat_request(9, str(2))
    \/ /\ CancelValid(disk, str(9), str(2))
       /\ cancel_chat_request(9, str(2))
    \/ /\ CancelValid(disk, str(9), str(2))
       /\ accept_chat(2, str(9))
    \/ /\ PartnerOf(disk, str(9)) = str(2)
       /\ end_chat(9, str(2))
    \/ add_file_prompt(9, str(2))
    \/ message_handler(9, "trip")
    \/ /\ CommentPrompted(9)
       /\ skip_comment(9, str(2))
    \/ /\ waiting_for(9) = "file"
       /\ file_handler(9, "photo", "f1")
    \/ delete_file(9, str(2), 0)

SpecBan == InitBan /\ [][NextBan]_vars


(***************************************************************************)
(* SpecKey: the pair key computed for every ordered pair of ids, next to   *)
(* removals from the galleries of alice, bob and carol asked for from      *)
(* either side of each pair.                                               *)
(***************************************************************************)
\* gallery_id = f"{min(user_id, friend_id)}_{max(user_id, friend_id)}" as a
\* handler run for tg about friend_tg computes it.
compute_gallery_id(tg, friend_tg) ==
    /\ last' = Did("gallery_id", tg, str(friend_tg),
                   gallery_id(get_user_id(tg), str(friend_tg)))
    /\ UNCHANGED <<disk, user_data, tasks>>

InitKey ==
    /\ disk = GalleryData
    /\ user_data = [u \in UserIds |-> NoUserData]
    /\ tasks = NoTasks
    /\ last = Nothing

NextKey ==
    \/ \E tg \in KeyTgIds : \E friend_tg \in KeyTgIds : compute_gallery_id(tg, friend_tg)
    \/ \E tg \in TgIds : \E friend_id \in Others(tg) : \E i \in FileIndexes :
          delete_file(tg, friend_id, i)

SpecKey == InitKey /\ [][NextKey]_vars


(***************************************************************************)
(* SpecScenario: alice invites bob by his handle, bob accepts, and alice   *)
(* runs the add-item flow once for the gallery they share: name "trip",    *)
(* comment "fun", then a photo (or content of a kind that is refused, after *)
(* which she starts the flow again).  bob may decline first, and alice     *)
(* then invites him again.                                                 *)
(***************************************************************************)
\* What alice types at the stage she is at.
ScenarioTexts(tg) ==
    CASE waiting_for(tg) = "friend_username" -> {"bob", "@Bob"}
      [] waiting_for(tg) = "file_name"       -> {"trip"}
      [] waiting_for(tg) = "file_comment"    -> {"fun", " fun "}
      [] OTHER                               -> {}

\* The two users are in each other's friend list.
AreFriends(data, x, y) ==
    /\ InList(y, FriendsOf(data, x))
    /\ InList(x, FriendsOf(data, y))

InitScenario ==
    /\ disk = RegisteredData
    /\ user_data = [u \in UserIds |-> NoUserData]
    /\ tasks = NoTasks
    /\ last = Nothing

NextScenario ==
    \/ \E tg \in FriendActors : start(tg)
    \/ /\ ~AreFriends(disk, str(2), str(9))
       /\ add_friend_prompt(2)
    \/ \E text \in ScenarioTexts(2) : message_handler(2, text)
    \/ /\ InvitePending(disk, str(2), str(9))
       /\ accept_invite(9, str(2))
    \/ /\ InvitePending(disk, str(2), str(9))
       /\ decline_invite(9, str(2))
    \/ \E tg \in FriendActors : show_main_menu(tg)
    \/ \E tg \in FriendActors : show_gallery_menu(tg)
    \/ /\ AreFriends(disk, str(2), str(9))
       /\ view_gallery(2, str(9))
    \/ /\ AreFriends(disk, str(2), str(9))
       /\ FilesOf(disk, gallery_id(str(2), str(9))) = <<>>
       /\ add_file_prompt(2, str(9))
    \/ /\ waiting_for(2) = "file"
       /\ \E kind \in FlowKinds : \E file_id \in FileIds : file_handler(2, kind, file_id)

SpecScenario == InitScenario /\ [][NextScenario]_vars


(***************************************************************************)
(* SpecSave: handlers whose save_data may fail.  save_data opens DATA_FILE *)
(* for writing, which empties it, and json.dump then writes the document   *)
(* piece by piece; there is no temporary file and no rename.               *)
(***************************************************************************)
\* DATA_FILE when it does not hold a JSON document: it holds nothing, or the
\* part of the document that json.dump had written.
Torn(written) == [torn |-> written]

\* json.load(f) succeeds on the file.
Readable(file) == "users" \in DOMAIN file

\* save_data when the write fails: open() raised and the file is as it was,
\* or open() emptied the file and json.dump raised before or after writing
\* a part of the document.
save_data_raises ==
    \E written \in {"not_opened", "nothing", "part"} :
        disk' = IF written = "not_opened" THEN disk ELSE Torn(written)

\* The "restart" branch of button_handler when its save_data raises.
restart_raises(tg) ==
    /\ save_data_raises
    /\ last' = Did("restart", tg, None, "raised")
    /\ UNCHANGED <<user_data, tasks>>

\* handle_admin_ban when its save_data raises: the cursor was reset before.
handle_admin_ban_raises(tg, text) ==
    /\ SetUserData(tg, [waiting_for |-> None])
    /\ save_data_raises
    /\ last' = Did("handle_admin_ban", tg, strip(text), "raised")
    /\ UNCHANGED tasks

\* start when load_data raises on a file that holds no document.
start_raises(tg) ==
    /\ last' = Did("start", tg, None, "raised")
    /\ UNCHANGED <<disk, user_data, tasks>>

InitSave ==
    /\ disk = FriendsData
    /\ user_data = [u \in UserIds |-> NoUserData]
    /\ tasks = NoTasks
    /\ last = Nothing

NextSave ==
    \/ \E tg \in TgIds : Readable(disk) /\ start(tg)
    \/ \E tg \in TgIds : ~Readable(disk) /\ start_raises(tg)
    \/ \E tg \in TgIds : Readable(disk) /\ restart(tg)
    \/ \E tg \in TgIds : Readable(disk) /\ restart_raises(tg)
    \/ Readable(disk) /\ admin_ban_prompt(10)
    \/ Readable(disk) /\ waiting_for(10) = "admin_ban" /\ handle_admin_ban(10, str(9))
    \/ Readable(disk) /\ waiting_for(10) = "admin_ban" /\ handle_admin_ban_raises(10, str(9))

SpecSave == InitSave /\ [][NextSave]_vars


(***************************************************************************)
(* SpecNotify: alice and bob go from invitation to friendship, add items   *)
(* and hold a chat, while any notice sent to the other one may fail.       *)
(***************************************************************************)
\* What alice types at the stage she is at.
NotifyTexts(tg) ==
    CASE waiting_for(tg) = "friend_username" -> {"bob"}
      [] waiting_for(tg) = "file_name"       -> {"trip"}
      [] OTHER                               -> {}

InitNotify ==
    /\ disk = RegisteredData
    /\ user_data = [u \in UserIds |-> NoUserData]
    /\ tasks = NoTasks
    /\ last = Nothing

NextNotify ==
    \/ /\ ~AreFriends(disk, str(2), str(9))
       /\ add_friend_prompt(2)
    \/ \E text \in NotifyTexts(2) : message_handler(2, text)
    \/ /\ InvitePending(disk, str(2), str(9))
       /\ accept_invite(9, str(2))
    \/ /\ AreFriends(disk, str(2), str(9))
       /\ add_file_prompt(2, str(9))
    \/ /\ CommentPrompted(2)
       /\ skip_comment(2, str(9))
    \/ /\ waiting_for(2) = "file"
       /\ file_handler(2, "photo", "f1")
    \/ /\ AreFriends(disk, str(2), str(9))
       /\ start_chat_request(2, str(9))
    \/ /\ CancelValid(disk, str(2), str(9))
       /\ accept_chat(9, str(2))
    \/ \E tg \in FriendActors : \E partner_id \in OtherActors(tg) :
          /\ PartnerOf(disk, get_user_id(tg)) = partner_id
          /\ end_chat(tg, partner_id)

SpecNotify == InitNotify /\ [][NextNotify]_vars


(***************************************************************************)
(* SpecLedger: the galleries of alice, bob and carol under every operation *)
(* that touches a gallery.  alice comments on items of the gallery she     *)
(* shares with bob; bob, who has named an item and skipped its comment,    *)
(* sends its photo, removes the first item, and accepts alice's invitation *)
(* once more from the notice still in his chat; carol removes the item     *)
(* of the gallery she shares with alice.  A comment or removal control     *)
(* carries the index its item had when the control was drawn.  The gallery *)
(* of alice and bob holds at most MaxComments comments in all.             *)
(***************************************************************************)
\* The comments alice types.
LedgerComments == {"trip", " fun "}

\* The gallery of alice and bob filled up, and one item in the gallery of
\* alice and carol.
LedgerData ==
    AddFileData(Filled(FriendsData, MaxFiles), str(10), str(2),
                FileInfo(10, "document", "f2", "map", "", gallery_id(str(10), str(2)), FALSE))

RECURSIVE CountComments(_)
\* The number of later comments on the items of a list.
CountComments(files) ==
    IF files = <<>> THEN 0
    ELSE Len(Head(files).comments) + CountComments(Tail(files))

\* The indices the controls drawn so far carry.
LedgerIndexes == 0..(MaxFiles - 1)

\* bob's scratch after add_file_prompt, the name "trip" and skip_comment.
LedgerUserData ==
    [u \in UserIds |->
        IF u = str(9)
        THEN [NoUserData EXCEPT !.waiting_for = "file", !.file_friend_id = str(2),
                                !.file_name = "trip", !.file_comment = ""]
        ELSE NoUserData]

InitLedger ==
    /\ disk = LedgerData
    /\ user_data = LedgerUserData
    /\ tasks = NoTasks
    /\ last = Nothing

NextLedger ==
    \/ \E i \in LedgerIndexes : add_comment_prompt(2, str(9), i)
    \/ /\ waiting_for(2) = "file_new_comment"
       /\ CountComments(FilesOf(disk, gallery_id(str(2), str(9)))) < MaxComments
       /\ \E text \in LedgerComments : message_handler(2, text)
    \/ delete_file(9, str(2), 0)
    \/ delete_file(10, str(2), 0)
    \/ accept_invite(9, str(2))
    \/ /\ waiting_for(9) = "file"
       /\ file_handler(9, "photo", "f2")

SpecLedger == InitLedger /\ [][NextLedger]_vars


(***************************************************************************)
(* SpecRelease: alice and bob remove the items of the gallery they share,  *)
(* of which every second one has a local copy, and alice adds items again. *)
(***************************************************************************)
ReleaseIndexes == 0..(MaxFiles - 1)

InitRelease ==
    /\ disk = Filled(FriendsData, MaxFiles)
    /\ user_data = [u \in UserIds |-> NoUserData]
    /\ tasks = NoTasks
    /\ last = Nothing

NextRelease ==
    \/ \E i \in ReleaseIndexes : confirm_delete_file(2, str(9), i)
    \/ \E i \in ReleaseIndexes : delete_file(2, str(9), i)
    \/ \E i \in ReleaseIndexes : delete_file(9, str(2), i)
    \/ add_file_prompt(2, str(9))
    \/ /\ waiting_for(2) = "file_name"
       /\ message_handler(2, "trip")
    \/ /\ CommentPrompted(2)
       /\ skip_comment(2, str(9))
    \/ /\ waiting_for(2) = "file"
       /\ file_handler(2, "video", "f2")

SpecRelease == InitRelease /\ [][NextRelease]_vars


(***************************************************************************)
(* The error log (LOGS_FILE) and the bulk export                           *)
(***************************************************************************)
\* What load_logs returns when LOGS_FILE does not exist.
EmptyLogs == [errors |-> <<>>]

\* logs["errors"][-50:] keeps this many entries.
LOG_LIMIT == 50

\* A slice that keeps the first n entries, for comparison.
LastN_First(lst, n) == IF Len(lst) <= n THEN lst ELSE SubSeq(lst, 1, n)

\* lst[-n:]
LastN(lst, n) == IF Len(lst) <= n THEN lst ELSE SubSeq(lst, Len(lst) - n + 1, Len(lst))

\* save_log(error_text) on the document `logs` that load_logs returned, at a
\* moment that strftime renders as `date`: the document json.dump writes.
save_log(logs, date, error_text) ==
    [logs EXCEPT !.errors = LastN(Append(@, [date |-> date, error |-> error_text]),
                                  LOG_LIMIT)]

\* What an export run leaves in `last`: the answer, the file ids it tried to
\* send in the order it tried them, the count it reported and the texts it
\* passed to save_log.
DidExport(op, tg, arg, out, attempts, sent, logged) ==
    [op |-> op, user |-> get_user_id(tg), arg |-> arg, out |-> out,
     attempts |-> attempts, sent |-> sent, logged |-> logged]

\* The loop over files of export_gallery and admin_export_gallery: every item
\* is tried, in order; the sends of the items in `failed` raise.
ExportAttempts(files) == [k \in 1..Len(files) |-> files[k].file_id]
ExportSent(files, failed) == Len(files) - Cardinality(failed)

\* export_gallery (callback "export_gallery_<friend_id>"): says so when the
\* gallery is empty; otherwise announces the export, sends every item, passes
\* the error of a send that raised to save_log, and sends the summary with
\* the count of the sends that did not raise.  The announcement and the
\* summary are sent outside the try.
export_gallery(tg, friend_id) ==
    LET data  == load_data
        files == FilesOf(data, gallery_id(get_user_id(tg), friend_id))
    IN  /\ UNCHANGED <<disk, user_data, tasks>>
        /\ IF files = <<>>
           THEN last' = DidExport("export_gallery", tg, friend_id, "empty", <<>>, 0, <<>>)
           ELSE \E announced \in BOOLEAN :
                IF ~announced
                THEN last' = DidExport("export_gallery", tg, friend_id, "raised", <<>>, 0, <<>>)
                ELSE \E failed \in SUBSET (1..Len(files)) : \E summarised \in BOOLEAN :
                     last' = DidExport("export_gallery", tg, friend_id,
                                       IF summarised THEN "summary" ELSE "raised",
                                       ExportAttempts(files), ExportSent(files, failed),
                                       [k \in 1..Cardinality(failed) |-> "Export error"])

\* admin_export_gallery (callback "admin_export_<user1_id>_<user2_id>",
\* dispatched to the administrator only): as export_gallery, but a send that
\* raised is passed over (except: pass).
admin_export_gallery(tg, user1_id, user2_id) ==
    LET data  == load_data
        files == FilesOf(data, gallery_id(user1_id, user2_id))
    IN  /\ get_user_id(tg) = ADMIN_ID
        /\ UNCHANGED <<disk, user_data, tasks>>
        /\ IF files = <<>>
           THEN last' = DidExport("admin_export_gallery", tg, user1_id, "empty", <<>>, 0, <<>>)
           ELSE \E announced \in BOOLEAN :
                IF ~announced
                THEN last' = DidExport("admin_export_gallery", tg, user1_id, "raised",
                                       <<>>, 0, <<>>)
                ELSE \E failed \in SUBSET (1..Len(files)) : \E summarised \in BOOLEAN :
                     last' = DidExport("admin_export_gallery", tg, user1_id,
                                       IF summarised THEN "summary" ELSE "raised",
                                       ExportAttempts(files), ExportSent(files, failed), <<>>)

(***************************************************************************)
(* SpecExport: alice and bob export the gallery they share and carol, the  *)
(* administrator, exports it too, while bob removes items from it.        *)
(***************************************************************************)
InitExport ==
    /\ disk = GalleryData
    /\ user_data = [u \in UserIds |-> NoUserData]
    /\ tasks = NoTasks
    /\ last = Nothing

NextExport ==
    \/ export_gallery(2, str(9))
    \/ export_gallery(9, str(2))
    \/ export_gallery(10, str(9))
    \/ admin_export_gallery(10, str(2), str(9))
    \/ \E i \in FileIndexes : delete_file(9, str(2), i)

SpecExport == InitExport /\ [][NextExport]_vars

(***************************************************************************)
(* SpecLog: save_log is called time after time, each call in a later       *)
(* minute than the one before, on a LOGS_FILE that did not exist.  `last`  *)
(* holds the document the latest call wrote and how many calls there were. *)
(***************************************************************************)
\* The number of save_log calls made in the model.
MaxLogCalls == 120

\* The text every call is given.
LogTexts == {"Export error: Timed out"}

save_log_call(error_text) ==
    /\ last.index < MaxLogCalls
    /\ last' = [op |-> "save_log", user |-> None, arg |-> error_text,
                out |-> save_log(last.out, last.index + 1, error_text),
                index |-> last.index + 1]
    /\ UNCHANGED <<disk, user_data, tasks>>

InitLog ==
    /\ disk = EmptyData
    /\ user_data = [u \in UserIds |-> NoUserData]
    /\ tasks = NoTasks
    /\ last = [op |-> "load_logs", user |-> None, arg |-> None, out |-> EmptyLogs,
               index |-> 0]

NextLog ==
    \E error_text \in LogTexts : save_log_call(error_text)

SpecLog == InitLog /\ [][NextLog]_vars


(***************************************************************************)
(* SpecConfirm: alice has pressed the removal control of the second item   *)
(* of the gallery she shares with bob and has the confirmation prompt in   *)
(* her chat; bob, who was about to send the content of a new item, removes *)
(* and adds items, and alice presses the prompt's confirm control.         *)
(***************************************************************************)
\* The prompt confirm_delete_file drew for alice: the name it shows and the
\* index its confirm control carries.
PromptShown ==
    [file_index |-> InitFiles - 2,
     file_name  |-> FilesOf(GalleryData, gallery_id(str(2), str(9)))[InitFiles - 1].name]

\* The prompt is in alice's chat until a press of its confirm control has
\* been answered: delete_file then redraws the gallery in its place.
PromptLeft ==
    ~(last.op = "delete_file" /\ last.user = str(2) /\ last.out = "deleted")

InitConfirm ==
    /\ disk = GalleryData
    /\ user_data = LedgerUserData
    /\ tasks = NoTasks
    /\ last = DidAt("confirm_delete_file", 2, str(9), PromptShown.file_index, "confirm")

\* The run ends when the prompt is gone.
NextConfirm ==
    \/ /\ PromptLeft
       /\ \E i \in FileIndexes : delete_file(9, str(2), i)
    \/ /\ PromptLeft
       /\ \E i \in FileIndexes : confirm_delete_file(9, str(2), i)
    \/ /\ PromptLeft
       /\ waiting_for(9) = "file"
       /\ file_handler(9, "photo", "f2")
    \/ /\ PromptLeft
       /\ view_gallery(9, str(2))
    \/ /\ PromptLeft
       /\ delete_file(2, str(9), PromptShown.file_index)

SpecConfirm == InitConfirm /\ [][NextConfirm]_vars


(***************************************************************************)
(* SpecRequest: alice and bob send each other chat requests, some of whose *)
(* notices cannot be delivered, and cancel, accept, decline and end.       *)
(***************************************************************************)
Requesters == {2, 9}

NextRequest ==
    \/ \E tg \in Requesters : \E friend_id \in Others(tg) : start_chat_request(tg, friend_id)
    \/ \E tg \in Requesters : \E friend_id \in Others(tg) :
          /\ CancelValid(disk, get_user_id(tg), friend_id)
          /\ cancel_chat_request(tg, friend_id)
    \/ \E tg \in TgIds : \E from_id \in Others(tg) :
          /\ CancelValid(disk, from_id, get_user_id(tg))
          /\ accept_chat(tg, from_id)
    \/ \E tg \in TgIds : \E from_id \in Others(tg) :
          /\ CancelValid(disk, from_id, get_user_id(tg))
          /\ decline_chat(tg, from_id)
    \/ \E tg \in TgIds : \E partner_id \in Others(tg) :
          /\ PartnerOf(disk, get_user_id(tg)) = partner_id
          /\ end_chat(tg, partner_id)

SpecRequest == InitChat /\ [][NextRequest]_vars


(***************************************************************************)
(* SpecConc: handlers dispatched concurrently, as section 5 of the         *)
(* specification assumes of the hosting runtime.  A handler runs from one  *)
(* await to the next without interruption; at an await another user's      *)
(* handler may run.  tasks[user_id] is the coroutine of that user's        *)
(* handler: its position, the document it loaded and its local variables.  *)
(* alice and bob are each at the "file" stage for their common gallery and *)
(* send a photo; carol sends and cancels chat requests.                    *)
(***************************************************************************)
\* No handler of this user is suspended.
Idle(user_id) == IF user_id \in DOMAIN tasks THEN tasks[user_id].pc = "done" ELSE TRUE

\* The coroutine of a handler that has returned with outcome out.
Returned(op, out) == [op |-> op, pc |-> "done", out |-> out]

\* handle_file up to its first await (get_file): the stage is reset, the
\* scratch values are read and the document is loaded.
handle_file_load(tg, kind, file_id) ==
    LET user_id   == get_user_id(tg)
        friend_id == user_data[user_id].file_friend_id
    IN  /\ Idle(user_id)
        /\ waiting_for(tg) = "file"
        /\ friend_id # None
        /\ kind \in {"photo", "document", "video"}
        /\ SetUserData(tg, [waiting_for |-> None])
        /\ tasks' = Put(tasks, user_id,
                        [op |-> "handle_file", pc |-> "get_file", data |-> load_data,
                         friend_id |-> friend_id, kind |-> kind, file_id |-> file_id,
                         custom_name |-> custom_name(tg), comment |-> file_comment(tg)])
        /\ last' = Did("handle_file", tg, friend_id, "suspended")
        /\ UNCHANGED disk

\* handle_file from the return of get_file to the await of the notice:
\* get_file raised, or the download is awaited, file_info is appended to the
\* document loaded earlier and that document is saved.
handle_file_save(tg) ==
    LET user_id == get_user_id(tg)
        t       == tasks[user_id]
        gid     == gallery_id(user_id, t.friend_id)
    IN  /\ user_id \in DOMAIN tasks
        /\ t.op = "handle_file" /\ t.pc = "get_file"
        /\ UNCHANGED user_data
        /\ \E fetched \in BOOLEAN, downloaded \in BOOLEAN :
              IF ~fetched
              THEN /\ tasks' = Put(tasks, user_id, Returned("handle_file", "raised"))
                   /\ last' = Did("handle_file", tg, t.friend_id, "raised")
                   /\ UNCHANGED disk
              ELSE /\ Len(FilesOf(t.data, gid)) < MaxFiles
                   /\ save_data(AddFileData(t.data, user_id, t.friend_id,
                          FileInfo(tg, t.kind, t.file_id, t.custom_name, t.comment,
                                   gid, downloaded)))
                   /\ tasks' = Put(tasks, user_id, [t EXCEPT !.pc = "notify"])
                   /\ last' = Did("handle_file", tg, t.friend_id, "saved")

\* handle_file after the notice to the friend: the scratch values are
\* dropped and the sender is answered.
handle_file_done(tg) ==
    LET user_id == get_user_id(tg)
        t       == tasks[user_id]
    IN  /\ user_id \in DOMAIN tasks
        /\ t.op = "handle_file" /\ t.pc = "notify"
        /\ SetUserData(tg, [file_comment |-> None, file_name |-> None])
        /\ \E notified \in BOOLEAN :
              LET out == IF notified THEN "added" ELSE "added_notice_failed"
              IN  /\ tasks' = Put(tasks, user_id, Returned("handle_file", out))
                  /\ last' = Did("handle_file", tg, t.friend_id, out)
        /\ UNCHANGED disk

\* start_chat_request up to the await that sends the notice (or up to its
\* return when the loaded document refuses the request).
start_chat_request_load(tg, friend_id) ==
    LET user_id == get_user_id(tg)
        data    == load_data
    IN  /\ Idle(user_id)
        /\ UNCHANGED <<disk, user_data>>
        /\ IF RequestRefusal(data, user_id) # None
           THEN /\ tasks' = Put(tasks, user_id,
                                Returned("start_chat_request", RequestRefusal(data, user_id)))
                /\ last' = Did("start_chat_request", tg, friend_id,
                               RequestRefusal(data, user_id))
           ELSE /\ tasks' = Put(tasks, user_id,
                                [op |-> "start_chat_request", pc |-> "send_message",
                                 data |-> data, friend_id |-> friend_id])
                /\ last' = Did("start_chat_request", tg, friend_id, "suspended")

\* start_chat_request from the return of send_message: the request is put
\* into the document loaded earlier and that document is saved.
start_chat_request_save(tg) ==
    LET user_id == get_user_id(tg)
        t       == tasks[user_id]
    IN  /\ user_id \in DOMAIN tasks
        /\ t.op = "start_chat_request" /\ t.pc = "send_message"
        /\ UNCHANGED user_data
        /\ \E sent \in BOOLEAN, message_id \in MsgIds, confirmed \in BOOLEAN :
              LET out == IF ~sent THEN "not_sent"
                         ELSE IF confirmed THEN "requested" ELSE "requested_not_confirmed"
              IN  /\ IF sent
                     THEN save_data(RequestData(t.data, user_id, t.friend_id, message_id))
                     ELSE UNCHANGED disk
                  /\ tasks' = Put(tasks, user_id, Returned("start_chat_request", out))
                  /\ last' = Did("start_chat_request", tg, t.friend_id, out)

\* cancel_chat_request up to the await that deletes the notice (or up to its
\* return when the loaded document holds no such request).
cancel_chat_request_load(tg, friend_id) ==
    LET user_id == get_user_id(tg)
        data    == load_data
    IN  /\ Idle(user_id)
        /\ UNCHANGED <<disk, user_data>>
        /\ IF CancelValid(data, user_id, friend_id)
           THEN /\ tasks' = Put(tasks, user_id,
                                [op |-> "cancel_chat_request", pc |-> "delete_message",
                                 data |-> data, friend_id |-> friend_id])
                /\ last' = Did("cancel_chat_request", tg, friend_id, "suspended")
           ELSE /\ tasks' = Put(tasks, user_id,
                                Returned("cancel_chat_request", "already_handled"))
                /\ last' = Did("cancel_chat_request", tg, friend_id, "already_handled")

\* cancel_chat_request from the return of delete_message: the request is
\* deleted from the document loaded earlier and that document is saved.
cancel_chat_request_save(tg) ==
    LET user_id == get_user_id(tg)
        t       == tasks[user_id]
    IN  /\ user_id \in DOMAIN tasks
        /\ t.op = "cancel_chat_request" /\ t.pc = "delete_message"
        /\ UNCHANGED user_data
        /\ save_data(CancelData(t.data, user_id))
        /\ \E retracted \in BOOLEAN :
              LET out == IF retracted THEN "cancelled" ELSE "cancelled_not_retracted"
              IN  /\ tasks' = Put(tasks, user_id, Returned("cancel_chat_request", out))
                  /\ last' = Did("cancel_chat_request", tg, t.friend_id, out)

\* The users who upload in SpecConc, and the one who asks for chats.
Uploaders == {2, 9}
Requester == 10

\* The scratch of a user who has named an item "trip", skipped its comment
\* and is now asked for the content, for the gallery shared with friend_id.
AtFileStage(friend_id) ==
    [NoUserData EXCEPT !.waiting_for = "file", !.file_friend_id = friend_id,
                       !.file_name = "trip", !.file_comment = ""]

InitConc ==
    /\ disk = FriendsData
    /\ user_data = [u \in UserIds |->
                       IF u = str(2) THEN AtFileStage(str(9))
                       ELSE IF u = str(9) THEN AtFileStage(str(2))
                       ELSE NoUserData]
    /\ tasks = NoTasks
    /\ last = Nothing

NextConc ==
    \/ \E tg \in Uploaders : handle_file_load(tg, "photo", Digits[tg + 1])
    \/ \E tg \in Uploaders : handle_file_save(tg)
    \/ \E tg \in Uploaders : handle_file_done(tg)
    \/ \E friend_id \in Others(Requester) : start_chat_request_load(Requester, friend_id)
    \/ start_chat_request_save(Requester)
    \/ \E friend_id \in Others(Requester) : cancel_chat_request_load(Requester, friend_id)
    \/ cancel_chat_request_save(Requester)

SpecConc == InitConc /\ [][NextConc]_vars


(***************************************************************************)
(* Claims about the chat handshake (checked under SpecChat)                *)
(***************************************************************************)
\* C1: in every reachable state no identity has both an outstanding outbound
\* Chat Request (chat_requests[X]) and an Active Session (active_chats[X]).
C1_RequestXorSession ==
    \A x \in UserIds :
        ~(x \in DOMAIN disk.chat_requests /\ x \in DOMAIN disk.active_chats)

\* C2: in every reachable state the Active Session mapping is symmetric:
\* active_chats[X] = Y implies active_chats[Y] = X.
C2_SessionSymmetric ==
    \A x \in DOMAIN disk.active_chats :
        /\ disk.active_chats[x] \in DOMAIN disk.active_chats
        /\ disk.active_chats[disk.active_chats[x]] = x

\* C3: a step of accept_chat by B naming A, taken when no request from A
\* addressed to B is pending, fails: chat_requests and active_chats keep
\* their values (so a session is installed only for a pending request).
C3_AcceptNeedsRequest ==
    [][(last'.op = "accept_chat" /\ ~CancelValid(disk, last'.arg, last'.user))
          => /\ disk'.chat_requests = disk.chat_requests
             /\ disk'.active_chats = disk.active_chats]_vars

(***************************************************************************)
(* Claims about registration and invitations (checked under SpecFriends)   *)
(***************************************************************************)
\* C4: in every reachable state friendship is symmetric: Y is in X's friend
\* list if and only if X is in Y's friend list.
C4_FriendshipSymmetric ==
    \A x \in DOMAIN disk.users : \A y \in DOMAIN disk.users :
        InList(y, disk.users[x].friends) <=> InList(x, disk.users[y].friends)

\* C5: accept_invite by B naming A succeeds only while an invite from A
\* addressed to B is pending; an accept without one (a second accept of the
\* deleted invite included) answers not-found and changes nothing in users,
\* galleries or invites.
C5_AcceptOnlyOnce ==
    [][(last'.op = "accept_invite" /\ ~InvitePending(disk, last'.arg, last'.user))
          => /\ last'.out = "not_found"
             /\ disk' = disk]_vars

\* C6: after accept_invite by B of an invite from A, A's friend list contains
\* B, B's friend list contains A, no invite addressed to B exists, and the
\* gallery keyed gallery_id(A, B) exists; if it did not exist before, it has
\* zero items.
C6_AcceptInvitePost ==
    [][(last'.op = "accept_invite" /\ InvitePending(disk, last'.arg, last'.user))
          => LET b   == last'.user
                 a   == last'.arg
                 gid == gallery_id(a, b)
             IN  /\ a \in DOMAIN disk'.users /\ b \in DOMAIN disk'.users
                 /\ InList(b, disk'.users[a].friends)
                 /\ InList(a, disk'.users[b].friends)
                 /\ b \notin DOMAIN disk'.invites
                 /\ gid \in DOMAIN disk'.galleries
                 /\ gid = gallery_id(b, a)
                 /\ (gid \notin DOMAIN disk.galleries
                        => disk'.galleries[gid].files = <<>>)]_vars

\* C6 witness: bob has just accepted alice's pending invitation, which
\* created their gallery: both are friends, no invite to bob is left.
C6_Witness ==
    /\ last.op = "accept_invite" /\ last.user = str(9) /\ last.arg = str(2)
    /\ InList(str(9), disk.users[str(2)].friends)
    /\ InList(str(2), disk.users[str(9)].friends)
    /\ str(9) \notin DOMAIN disk.invites
    /\ gallery_id(str(9), str(2)) \in DOMAIN disk.galleries
    /\ disk.galleries[gallery_id(str(9), str(2))].files = <<>>


(***************************************************************************)
(* Claims about concurrent handlers (checked under SpecConc)               *)
(***************************************************************************)
\* The handle_file of this user has returned after adding its item.
Added(tg) ==
    /\ get_user_id(tg) \in DOMAIN tasks
    /\ tasks[get_user_id(tg)].op = "handle_file"
    /\ tasks[get_user_id(tg)].pc = "done"
    /\ tasks[get_user_id(tg)].out \in {"added", "added_notice_failed"}

C9_FlowConsumesEvents ==
    [][(waiting_for(2) # None /\ str(2) \in DOMAIN disk.active_chats)
       => last'.out # "relayed"]_vars

\* alice's input fails the validation of the stage she is at: a text longer
\* than the limit of a text stage, or a sticker at the "file" stage.
InputRefused ==
    \/ /\ waiting_for(2) \in TextStages
       /\ \E text \in FlowTexts(2) :
             /\ Len(strip(text)) > Limit(waiting_for(2))
             /\ message_handler(2, text)
    \/ /\ waiting_for(2) = "file"
       /\ file_handler(2, "sticker", "f1")

FlowStarted ==
    /\ last'.user = str(2)
    /\ last'.op \in {"add_friend_prompt", "rename_friend_prompt",
                     "add_file_prompt", "add_comment_prompt"}

\* C11: when alice starts a flow while another is pending, she is at the
\* first stage of the new flow and the pending item name and item comment of
\* the old one are discarded.
C11_ScratchDiscarded ==
    [][(waiting_for(2) # None /\ FlowStarted) =>
          /\ user_data'[str(2)].waiting_for \in
                {"friend_username", "friend_nickname", "file_name", "file_new_comment"}
          /\ user_data'[str(2)].file_name = None
          /\ user_data'[str(2)].file_comment = None]_vars

\* C12: when alice presses a Cancel control or opens a menu (the gallery
\* menu, a gallery, the main menu), her cursor is None afterwards.
C12_MenuClearsCursor ==
    [][(last'.user = str(2)
        /\ last'.op \in {"show_gallery_menu", "view_gallery", "show_main_menu"})
       => user_data'[str(2)].waiting_for = None]_vars

(***************************************************************************)
(* Claims about the operations of the chat handshake (checked under        *)
(* SpecChat and SpecChatFresh)                                             *)
(***************************************************************************)
\* C13: a start_chat_request by a user who already has an outstanding
\* request or an active chat is refused (no notice is sent to the friend) and
\* leaves chat_requests and active_chats as they were.
C13_RequestRefused ==
    [][(last'.op = "start_chat_request"
        /\ (last'.user \in DOMAIN disk.chat_requests
            \/ last'.user \in DOMAIN disk.active_chats))
       => /\ last'.out \in {"already_request", "already_chat"}
          /\ disk'.chat_requests = disk.chat_requests
          /\ disk'.active_chats = disk.active_chats]_vars

\* carol, who is in a chat and has no request of her own, has just been
\* refused a chat request to alice.
C13_Witness ==
    /\ last.op = "start_chat_request" /\ last.user = str(10) /\ last.arg = str(2)
    /\ last.out = "already_chat"
    /\ str(10) \in DOMAIN disk.active_chats
    /\ str(10) \notin DOMAIN disk.chat_requests

\* C14: while u1's request to u2 is outstanding, a request by u1 to another
\* user u3 is refused and leaves chat_requests as it was; when u2 declines
\* the request, u1's slot is empty afterwards; and a request to u3 by a u1
\* who has neither a request nor a chat, once its notice is sent, is stored
\* as addressed to u3.
C14_RequestDeclineRequest ==
    [][/\ (last'.op = "start_chat_request"
           /\ last'.user \in DOMAIN disk.chat_requests
           /\ disk.chat_requests[last'.user].to_id # last'.arg)
          => /\ last'.out = "already_request"
             /\ disk'.chat_requests = disk.chat_requests
       /\ (last'.op = "decline_chat"
           /\ last'.arg \in DOMAIN disk.chat_requests
           /\ disk.chat_requests[last'.arg].to_id = last'.user)
          => last'.arg \notin DOMAIN disk'.chat_requests
       /\ (last'.op = "start_chat_request"
           /\ last'.user \notin DOMAIN disk.chat_requests
           /\ last'.user \notin DOMAIN disk.active_chats
           /\ last'.out # "not_sent")
          => /\ last'.out \in {"requested", "requested_not_confirmed"}
             /\ last'.user \in DOMAIN disk'.chat_requests
             /\ disk'.chat_requests[last'.user].to_id = last'.arg]_vars

\* bob has just declined the request alice had addressed to him: alice's
\* slot is empty and she is in no chat, so she may ask carol next.
C14_Witness ==
    /\ last.op = "decline_chat" /\ last.user = str(9) /\ last.arg = str(2)
    /\ str(2) \notin DOMAIN disk.chat_requests
    /\ str(2) \notin DOMAIN disk.active_chats

\* The two directions of a session between x and y are in data.
InSession(data, x, y) ==
    /\ x \in DOMAIN data.active_chats
    /\ y \in DOMAIN data.active_chats
    /\ data.active_chats[x] = y
    /\ data.active_chats[y] = x

\* C15: a session between x and y stays in place, in both directions, over
\* every step that is not an end_chat pressed by x or by y.
C15_SessionUntilEnd ==
    [][\A x \in UserIds : \A y \in UserIds \ {x} :
          (InSession(disk, x, y)
           /\ ~(last'.op = "end_chat" /\ last'.user \in {x, y}))
          => InSession(disk', x, y)]_vars

\* C16: an end_chat pressed by x naming y removes exactly the directions
\* x -> y and y -> x when x and y are in a session, and leaves active_chats
\* as it was when they are not.
C16_EndNeedsSession ==
    [][(last'.op = "end_chat") =>
          IF InSession(disk, last'.user, last'.arg)
          THEN disk'.active_chats = Del(Del(disk.active_chats, last'.user), last'.arg)
          ELSE disk'.active_chats = disk.active_chats]_vars

\* C17: a decline_chat pressed by b naming a deletes a's outstanding request
\* only when that request is addressed to b; a request of a addressed to
\* someone else is left in place.
C17_DeclineNeedsAddressee ==
    [][(last'.op = "decline_chat"
        /\ last'.arg \in DOMAIN disk.chat_requests
        /\ disk.chat_requests[last'.arg].to_id # last'.user)
       => disk'.chat_requests = disk.chat_requests]_vars

\* C18: a cancel_chat_request pressed by a naming b deletes a's outstanding
\* request when it is addressed to b, and otherwise answers that the request
\* was already handled and leaves the document as it was; active_chats is
\* unchanged either way.
C18_CancelNeedsRequest ==
    [][(last'.op = "cancel_chat_request") =>
          IF /\ last'.user \in DOMAIN disk.chat_requests
             /\ disk.chat_requests[last'.user].to_id = last'.arg
          THEN /\ disk'.chat_requests = Del(disk.chat_requests, last'.user)
               /\ disk'.active_chats = disk.active_chats
               /\ last'.out \in {"cancelled", "cancelled_not_retracted"}
          ELSE /\ last'.out = "already_handled"
               /\ disk' = disk]_vars

\* alice, whose outstanding request is addressed to bob, has just pressed the
\* cancel control of a request to carol: it is answered as already handled
\* and her request to bob is in place.
C18_Witness ==
    /\ last.op = "cancel_chat_request" /\ last.user = str(2) /\ last.arg = str(10)
    /\ last.out = "already_handled"
    /\ str(2) \in DOMAIN disk.chat_requests
    /\ disk.chat_requests[str(2)].to_id = str(9)

\* C19: a delete_file at an index i inside the gallery leaves a gallery one
\* item shorter, in which the items before i are where they were and every
\* item after i is one position lower, in the same order; every other
\* gallery is as it was.
C19_RemovalShifts ==
    [][(/\ last'.op = "delete_file"
        /\ last'.index < Len(FilesOf(disk, gallery_id(last'.user, last'.arg))))
       => LET gid == gallery_id(last'.user, last'.arg)
              old == FilesOf(disk, gid)
              new == FilesOf(disk', gid)
              i   == last'.index
          IN  /\ Len(new) = Len(old) - 1
              /\ \A k \in 1..i : new[k] = old[k]
              /\ \A k \in (i + 1)..Len(new) : new[k] = old[k + 1]
              /\ DOMAIN disk'.galleries = DOMAIN disk.galleries
              /\ \A g \in DOMAIN disk.galleries \ {gid} :
                    disk'.galleries[g] = disk.galleries[g]]_vars

\* bob has just removed the middle item of the three the gallery started
\* with: item1 and item3 remain, in that order, and the gallery of alice and
\* carol still has its item.
C19_Witness ==
    /\ last.op = "delete_file" /\ last.user = str(9) /\ last.arg = str(2)
    /\ last.index = 1 /\ last.out = "deleted"
    /\ Len(FilesOf(disk, "2_9")) = 2
    /\ FilesOf(disk, "2_9")[1].name = "item1"
    /\ FilesOf(disk, "2_9")[2].name = "item3"
    /\ Len(FilesOf(disk, "10_2")) = 1

\* C20: when a delete_file has removed the item at index i, the same
\* delete_file pressed again, by the same user for the same gallery and
\* index, answers "not found" and leaves the document as it was.
C20_RepeatedRemovalRefused ==
    [][(/\ last.op = "delete_file"
        /\ last.out \in {"deleted", "deleted_not_answered"}
        /\ last'.op = "delete_file"
        /\ last'.user = last.user
        /\ last'.arg = last.arg
        /\ last'.index = last.index)
       => /\ last'.out = "not_found"
          /\ disk' = disk]_vars

\* C21: a handler run for a user who is in banned_users leaves the document
\* as it was.
C21_BannedChangesNothing ==
    [][(last'.user # None /\ InList(last'.user, disk.banned_users))
       => disk' = disk]_vars

\* C22: a start or a restart by a user who is already registered leaves
\* that user's friend list and nicknames as they were.
C22_RegisterKeepsFriends ==
    [][(last'.op \in {"start", "restart"} /\ last'.user \in DOMAIN disk.users)
       => /\ last'.user \in DOMAIN disk'.users
          /\ disk'.users[last'.user].friends = disk.users[last'.user].friends
          /\ disk'.users[last'.user].nicknames = disk.users[last'.user].nicknames]_vars

\* C23: a handle_friend_username whose handle matches no user, matches the
\* sender, or matches a user already in the sender's friend list is refused
\* with the answer of that case and leaves the document, and so the
\* invites, as it was; and no refused handle_friend_username changes the
\* invites.
C23_InviteRefusals ==
    [][(last'.op = "handle_friend_username") =>
          /\ (last'.arg = None)
                => (last'.out = "unknown_handle" /\ disk' = disk)
          /\ (last'.arg = last'.user)
                => (last'.out = "self_invite" /\ disk' = disk)
          /\ (/\ last'.arg # None
              /\ last'.arg # last'.user
              /\ last'.user \in DOMAIN disk.users
              /\ InList(last'.arg, disk.users[last'.user].friends))
                => (last'.out = "already_friends" /\ disk' = disk)
          /\ (last'.out \in {"unknown_handle", "self_invite", "already_friends"})
                => disk'.invites = disk.invites]_vars

\* alice, who has bob in her friend list, has just typed bob's handle and
\* been told that he is already her friend.
C23_Witness ==
    /\ last.op = "handle_friend_username" /\ last.user = str(2) /\ last.arg = str(9)
    /\ last.out = "already_friends"
    /\ InList(str(9), disk.users[str(2)].friends)

\* C24: the pair key computed for A about B is the key computed for B about
\* A, and no other unordered pair of ids has that key; a removal asked for
\* by A about B changes no gallery but the one under the key of B about A.
C24_PairKey ==
    [][/\ (last'.op = "gallery_id") =>
             /\ last'.out = gallery_id(last'.arg, last'.user)
             /\ \A c \in KeyTgIds : \A d \in KeyTgIds :
                   (gallery_id(str(c), str(d)) = last'.out)
                      => ({str(c), str(d)} = {last'.user, last'.arg})
       /\ (last'.op = "delete_file") =>
             \A g \in DOMAIN disk.galleries \ {gallery_id(last'.arg, last'.user)} :
                /\ g \in DOMAIN disk'.galleries
                /\ disk'.galleries[g] = disk.galleries[g]]_vars

\* The key of alice (2) about carol (10) has just been computed: carol's id
\* comes first, since "10" sorts before "2" as a string.
C24_Witness ==
    /\ last.op = "gallery_id" /\ last.user = str(2) /\ last.arg = str(10)
    /\ last.out = "10_2"

\* C25: whenever alice's add-item flow has just stored its item (after her
\* invitation to the handle bob, bob's acceptance, the name "trip", the
\* comment "fun" and a photo), the gallery of alice and bob has exactly one
\* item, named "trip", commented "fun", contributed by alice's handle, and
\* alice's cursor is None.
C25_ScenarioA ==
    (last.op = "handle_file" /\ last.out \in {"added", "added_notice_failed"})
    => LET files == FilesOf(disk, gallery_id(str(2), str(9)))
       IN  /\ AreFriends(disk, str(2), str(9))
           /\ Len(files) = 1
           /\ files[1].name = "trip"
           /\ files[1].comment = "fun"
           /\ files[1].added_by = get_username(2)
           /\ files[1].type = "photo"
           /\ user_data[str(2)].waiting_for = None

\* The flow has just stored the photo and bob has been told: the friendship
\* is in place, no invitation is pending and the gallery holds the item.
C25_Witness ==
    /\ last.op = "handle_file" /\ last.user = str(2) /\ last.arg = str(9)
    /\ last.out = "added"
    /\ AreFriends(disk, str(2), str(9))
    /\ str(9) \notin DOMAIN disk.invites
    /\ Len(FilesOf(disk, "2_9")) = 1
    /\ FilesOf(disk, "2_9")[1].file_id = "f1"

C27_NoticeFailureKeepsChange ==
    [][/\ (last'.op = "accept_invite" /\ last'.out = "accepted_notice_failed")
          => /\ InList(last'.arg, disk'.users[last'.user].friends)
             /\ InList(last'.user, disk'.users[last'.arg].friends)
             /\ last'.user \notin DOMAIN disk'.invites
             /\ gallery_id(last'.user, last'.arg) \in DOMAIN disk'.galleries
       /\ (last'.op = "accept_chat" /\ last'.out = "accepted_notice_failed")
          => InSession(disk', last'.user, last'.arg)
       /\ (last'.op = "end_chat" /\ last'.out = "ended_notice_failed")
          => /\ last'.user \notin DOMAIN disk'.active_chats
             /\ last'.arg \notin DOMAIN disk'.active_chats
       /\ (last'.op = "handle_file" /\ last'.out = "added_notice_failed")
          => LET gid == gallery_id(last'.user, last'.arg)
                 old == FilesOf(disk, gid)
                 new == FilesOf(disk', gid)
             IN  /\ Len(new) = Len(old) + 1
                 /\ \A k \in 1..Len(old) : new[k] = old[k]
                 /\ new[Len(new)].added_by = disk.users[last'.user].username
       /\ (last'.op = "handle_friend_username" /\ last'.out = "invite_not_delivered")
          => /\ last'.arg \in DOMAIN disk'.invites
             /\ disk'.invites[last'.arg].from_id = last'.user]_vars

\* bob has just accepted alice's invitation and the notice to alice failed:
\* the two are friends and the invitation is gone.
C27_Witness ==
    /\ last.op = "accept_invite" /\ last.user = str(9) /\ last.arg = str(2)
    /\ last.out = "accepted_notice_failed"
    /\ AreFriends(disk, str(2), str(9))
    /\ str(9) \notin DOMAIN disk.invites

\* C28: a handle_friend_username that stores an invitation leaves exactly
\* one invitation addressed to its target, the sender's, whatever was
\* addressed to that target before, and leaves the invitations addressed to
\* every other user as they were.
C28_InviteReplaces ==
    [][(/\ last'.op = "handle_friend_username"
        /\ last'.out \in {"invite_sent", "invite_not_delivered"})
       => /\ DOMAIN disk'.invites = DOMAIN disk.invites \cup {last'.arg}
          /\ disk'.invites[last'.arg].from_id = last'.user
          /\ disk'.invites[last'.arg].from_username = disk.users[last'.user].username
          /\ \A t \in DOMAIN disk.invites \ {last'.arg} :
                disk'.invites[t] = disk.invites[t]]_vars

\* bob has just invited carol, and the one invitation addressed to carol is
\* his.
C28_Witness ==
    /\ last.op = "handle_friend_username" /\ last.user = str(9) /\ last.arg = str(10)
    /\ last.out = "invite_sent"
    /\ str(10) \in DOMAIN disk.invites
    /\ disk.invites[str(10)].from_id = str(9)
    /\ disk.invites[str(10)].from_username = "bob"

\* The addressee b is busy in data: b has an outstanding request of its own,
\* or a request of a third user is addressed to b, or b is in a chat with a
\* third user.
BusyTarget(data, a, b) ==
    \/ b \in DOMAIN data.chat_requests
    \/ \E c \in DOMAIN data.chat_requests : c # a /\ data.chat_requests[c].to_id = b
    \/ b \in DOMAIN data.active_chats /\ data.active_chats[b] # a

\* C29: a start_chat_request by a sender who has neither a request nor a
\* chat, addressed to a busy user, is never refused; once its notice is sent
\* the request is stored as addressed to that user, and the addressee's own
\* request and chat are as they were.
C29_RequestToBusyTarget ==
    [][(/\ last'.op = "start_chat_request"
        /\ last'.user \notin DOMAIN disk.chat_requests
        /\ last'.user \notin DOMAIN disk.active_chats
        /\ BusyTarget(disk, last'.user, last'.arg))
       => /\ last'.out \in {"requested", "requested_not_confirmed", "not_sent"}
          /\ (last'.out # "not_sent")
                => /\ last'.user \in DOMAIN disk'.chat_requests
                   /\ disk'.chat_requests[last'.user].to_id = last'.arg
                   /\ disk'.chat_requests = Put(disk.chat_requests, last'.user,
                                                disk'.chat_requests[last'.user])
                   /\ disk'.active_chats = disk.active_chats]_vars

\* alice's request to bob has just been stored while bob's own request to
\* carol is outstanding.
C29_Witness ==
    /\ last.op = "start_chat_request" /\ last.user = str(2) /\ last.arg = str(9)
    /\ last.out = "requested"
    /\ str(2) \in DOMAIN disk.chat_requests
    /\ disk.chat_requests[str(2)].to_id = str(9)
    /\ str(9) \in DOMAIN disk.chat_requests
    /\ disk.chat_requests[str(9)].to_id = str(10)

\* C30: a cancel_chat_request whose deletion of the delivered notice failed
\* was pressed on the sender's outstanding request to the user it names, and
\* leaves the document without a request of the sender, every other request
\* and every chat being as before.
C30_CancelSurvivesRetraction ==
    [][(/\ last'.op = "cancel_chat_request"
        /\ last'.out = "cancelled_not_retracted")
       => /\ last'.user \in DOMAIN disk.chat_requests
          /\ disk.chat_requests[last'.user].to_id = last'.arg
          /\ last'.user \notin DOMAIN disk'.chat_requests
          /\ \A c \in DOMAIN disk.chat_requests \ {last'.user} :
                /\ c \in DOMAIN disk'.chat_requests
                /\ disk'.chat_requests[c] = disk.chat_requests[c]
          /\ disk'.active_chats = disk.active_chats]_vars

\* alice has just cancelled her request to bob, the notice in bob's chat
\* could not be deleted, and alice has no request.
C30_Witness ==
    /\ last.op = "cancel_chat_request" /\ last.user = str(2) /\ last.arg = str(9)
    /\ last.out = "cancelled_not_retracted"
    /\ str(2) \notin DOMAIN disk.chat_requests

\* C31: a handle_new_comment that answers "commented" had an index inside
\* the gallery and leaves the gallery with the same items, the item at the
\* index having its earlier comments followed by one new comment signed by
\* the sender, and every other item as it was; a handle_new_comment whose
\* index is at or past the end changes nothing; and in a step of any other
\* handler every item of the gallery afterwards is an item of before with
\* the comments it had, or a new last item without comments.
C31_CommentsAppendOnly ==
    [][IF last'.op = "handle_new_comment"
       THEN LET u   == last'.user
                i   == user_data[u].comment_file_index
                old == FilesOf(disk, gallery_id(u, last'.arg))
                new == FilesOf(disk', gallery_id(u, last'.arg))
            IN  /\ (i >= Len(old)) => (disk' = disk /\ last'.out # "commented")
                /\ (last'.out # "commented") => disk' = disk
                /\ (last'.out = "commented") =>
                      /\ i < Len(old)
                      /\ Len(new) = Len(old)
                      /\ \A k \in 1..Len(old) :
                            IF k = i + 1
                            THEN /\ new[k].comments =
                                       Append(old[k].comments,
                                              new[k].comments[Len(new[k].comments)])
                                 /\ new[k].comments[Len(new[k].comments)].author
                                       = disk.users[u].username
                                 /\ [new[k] EXCEPT !.comments = old[k].comments] = old[k]
                            ELSE new[k] = old[k]
       ELSE \A g \in DOMAIN disk.galleries :
               LET old == disk.galleries[g].files
                   new == FilesOf(disk', g)
               IN  \A k \in 1..Len(new) :
                      \/ (k <= Len(old) /\ new[k] = old[k])
                      \/ (k < Len(old) /\ new[k] = old[k + 1])
                      \/ (k = Len(old) + 1 /\ k = Len(new) /\ new[k].comments = <<>>)]_vars

\* alice has just commented "fun" on the second item of the gallery, which
\* already carried her comment "trip": the item has the two comments in the
\* order they were made.
C31_Witness ==
    /\ last.op = "handle_new_comment" /\ last.user = str(2) /\ last.arg = str(9)
    /\ last.out = "commented"
    /\ Len(FilesOf(disk, "2_9")) = 2
    /\ Len(FilesOf(disk, "2_9")[2].comments) = 2
    /\ FilesOf(disk, "2_9")[2].comments[1] = [author |-> "alice", text |-> "trip"]
    /\ FilesOf(disk, "2_9")[2].comments[2] = [author |-> "alice", text |-> "fun"]
    /\ FilesOf(disk, "2_9")[1].comments = <<>>

\* C32: a delete_file whose index is inside the gallery leaves the document
\* without the item at the index, whatever became of the item's local copy:
\* os.remove succeeded, os.remove raised, or the path named no file; and the
\* removal of the local copy is passed over only for an item that has no
\* local_path.
C32_RemovalDespiteRelease ==
    [][(/\ last'.op = "delete_file"
        /\ last'.index < Len(FilesOf(disk, gallery_id(last'.user, last'.arg))))
       => /\ last'.release \in {"no_path", "absent", "removed", "failed"}
          /\ disk' = DeleteFileData(disk, gallery_id(last'.user, last'.arg), last'.index)
          /\ last'.out \in {"deleted", "deleted_not_answered"}
          /\ (last'.release = "no_path")
                = (FilesOf(disk, gallery_id(last'.user, last'.arg))[last'.index + 1].local_path
                      = None)]_vars

\* bob has just removed the first item of the full gallery, whose local copy
\* os.remove could not delete: the gallery starts with the second item.
C32_Witness ==
    /\ last.op = "delete_file" /\ last.user = str(9) /\ last.arg = str(2)
    /\ last.index = 0 /\ last.out = "deleted" /\ last.release = "failed"
    /\ Len(FilesOf(disk, "2_9")) = MaxFiles - 1
    /\ FilesOf(disk, "2_9")[1].name = "item2"

\* C33: an export_gallery or admin_export_gallery of a gallery that has
\* items tries to send every item once, in the order of the gallery, ends
\* with the summary, reports as sent a count between 0 and the number of
\* items, and has passed one error to save_log for every item that was not
\* sent.
C33_ExportSendsAllAndLogs ==
    [][(/\ last'.op \in {"export_gallery", "admin_export_gallery"}
        /\ last'.out # "empty")
       => /\ last'.out = "summary"
          /\ Len(last'.attempts) > 0
          /\ last'.sent \in 0..Len(last'.attempts)
          /\ Len(last'.logged) = Len(last'.attempts) - last'.sent]_vars

\* C36: the document save_log has written holds at most LOG_LIMIT entries,
\* and they are the entries of the latest calls, oldest first: after n calls
\* the entries of calls n - len + 1 .. n.
C36_LogBounded ==
    (last.op = "save_log") =>
        LET errors == last.out.errors
            n      == last.index
        IN  /\ Len(errors) = IF n <= LOG_LIMIT THEN n ELSE LOG_LIMIT
            /\ \A k \in 1..Len(errors) : errors[k].date = n - Len(errors) + k

\* save_log has been called sixty times: the document holds the entries of
\* calls 11 to 60.
C36_Witness ==
    /\ last.op = "save_log" /\ last.index = LOG_LIMIT + 10
    /\ Len(last.out.errors) = LOG_LIMIT
    /\ last.out.errors[1].date = 11
    /\ last.out.errors[LOG_LIMIT].date = LOG_LIMIT + 10

\* C34: a step in which the gallery of alice and bob gains an item is a
\* handle_file of content of a supported kind that found the sender at the
\* "file" stage with a name and a comment (or its skip) from the two stages
\* before, and leaves her without a stage, name or comment.
C34_ItemOnlyAtFileStage ==
    [][(Len(FilesOf(disk', "2_9")) > Len(FilesOf(disk, "2_9")))
       => /\ last'.op = "handle_file"
          /\ last'.out \in {"added", "added_notice_failed"}
          /\ user_data[last'.user].waiting_for = "file"
          /\ user_data[last'.user].file_name # None
          /\ user_data[last'.user].file_comment # None
          /\ FilesOf(disk', "2_9")[Len(FilesOf(disk', "2_9"))].type
                \in {"photo", "document", "video"}
          /\ user_data'[last'.user].waiting_for = None
          /\ user_data'[last'.user].file_name = None
          /\ user_data'[last'.user].file_comment = None]_vars

\* C35: every gallery of the document is in the document after any step,
\* with the same pair of users, and its items are as they were, or as they
\* were with one new item at the end after a handle_file, or without one of
\* them after a delete_file, or with one comment more on one of them after a
\* handle_new_comment; after an accept_invite they are as they were.
C35_GalleryKept ==
    [][\A g \in DOMAIN disk.galleries :
          /\ g \in DOMAIN disk'.galleries
          /\ disk'.galleries[g].users = disk.galleries[g].users
          /\ LET old == disk.galleries[g].files
                 new == disk'.galleries[g].files
             IN  \/ new = old
                 \/ /\ last'.op = "handle_file"
                    /\ Len(new) = Len(old) + 1
                    /\ SubSeq(new, 1, Len(old)) = old
                 \/ /\ last'.op = "delete_file"
                    /\ new = DelAt(old, last'.index)
                 \/ /\ last'.op = "handle_new_comment"
                    /\ Len(new) = Len(old)
                    /\ \E i \in 1..Len(old) :
                          /\ Len(new[i].comments) = Len(old[i].comments) + 1
                          /\ new = [old EXCEPT ![i].comments =
                                       Append(@, new[i].comments[Len(new[i].comments)])]]_vars

\* bob has just pressed the accept control of alice's old invitation again:
\* the gallery they share still has its items, the second with the comment
\* alice made on it.
C35_Witness ==
    /\ last.op = "accept_invite" /\ last.user = str(9) /\ last.arg = str(2)
    /\ Len(FilesOf(disk, "2_9")) = MaxFiles
    /\ FilesOf(disk, "2_9")[1].name = "item1"
    /\ FilesOf(disk, "2_9")[2].comments = <<[author |-> "alice", text |-> "trip"]>>

\* C37: when alice presses the confirm control of her prompt and an item is
\* removed, the item removed is the one the prompt named.
C37_ConfirmedItemRemoved ==
    [][(/\ last'.op = "delete_file"
        /\ last'.user = str(2) /\ last'.arg = str(9)
        /\ last'.index = PromptShown.file_index
        /\ last'.out \in {"deleted", "deleted_not_answered"})
       => FilesOf(disk, "2_9")[PromptShown.file_index + 1].name = PromptShown.file_name]_vars

\* C38: after any step every gallery is stored under the key of the pair of
\* users it records, and a gallery that the step created or changed is one
\* of the galleries of the user who acted: its key is the key of that user
\* and some other user, and the step was a handle_file, a delete_file or a
\* handle_new_comment.
C38_OwnGalleriesOnly ==
    [][\A g \in DOMAIN disk'.galleries :
          /\ gallery_id(disk'.galleries[g].users[1], disk'.galleries[g].users[2]) = g
          /\ (IF g \in DOMAIN disk.galleries
              THEN disk'.galleries[g] # disk.galleries[g]
              ELSE TRUE)
             => /\ last'.op \in {"handle_file", "delete_file", "handle_new_comment"}
                /\ \E f \in UserIds \ {last'.user} : g = gallery_id(last'.user, f)]_vars

\* carol has just removed the one item of the gallery she shares with alice:
\* that gallery is empty and the gallery of alice and bob has all its items.
C38_Witness ==
    /\ last.op = "delete_file" /\ last.user = str(10) /\ last.arg = str(2)
    /\ last.out = "deleted"
    /\ FilesOf(disk, "10_2") = <<>>
    /\ Len(FilesOf(disk, "2_9")) = MaxFiles
    /\ disk.galleries["2_9"].users = <<str(9), str(2)>>

\* C39: a start_chat_request whose notice could not be sent leaves the
\* document as it was, with neither a request nor a chat of the sender in it;
\* a start_chat_request that stores a request has sent the notice and stores
\* the addressee and the message id the transport gave the notice; and no
\* other handler stores or changes a request.
C39_RequestStoredAfterDelivery ==
    [][IF last'.op = "start_chat_request"
       THEN /\ (last'.out = "not_sent")
                  => /\ disk' = disk
                     /\ last'.user \notin DOMAIN disk'.chat_requests
                     /\ last'.user \notin DOMAIN disk'.active_chats
            /\ (disk'.chat_requests # disk.chat_requests)
                  = (last'.out \in {"requested", "requested_not_confirmed"})
            /\ (last'.out \in {"requested", "requested_not_confirmed"})
                  => /\ disk'.chat_requests[last'.user].to_id = last'.arg
                     /\ disk'.chat_requests[last'.user].message_id \in MsgIds
                     /\ disk'.active_chats = disk.active_chats
                     /\ \A u \in DOMAIN disk.chat_requests :
                           /\ u \in DOMAIN disk'.chat_requests
                           /\ disk'.chat_requests[u] = disk.chat_requests[u]
       ELSE \A u \in DOMAIN disk'.chat_requests :
               /\ u \in DOMAIN disk.chat_requests
               /\ disk'.chat_requests[u] = disk.chat_requests[u]]_vars

\* The notice of alice's request to carol could not be sent while bob's
\* request to alice is pending: alice has no request and bob's is as it was.
C39_Witness ==
    /\ last.op = "start_chat_request" /\ last.user = str(2) /\ last.arg = str(10)
    /\ last.out = "not_sent"
    /\ DOMAIN disk.chat_requests = {str(9)}
    /\ disk.chat_requests[str(9)].to_id = str(2)
    /\ disk.active_chats = EmptyDict

\* C40: in every state no user is in her own friend list and no friend list
\* names the same user twice.
C40_FriendListsProper ==
    \A u \in DOMAIN disk.users :
        LET friends == disk.users[u].friends
        IN  /\ \A i \in 1..Len(friends) : friends[i] # u
            /\ \A i \in 1..Len(friends) : \A j \in 1..Len(friends) :
                  (friends[i] = friends[j]) => (i = j)

\* alice and bob had invited each other and alice has just accepted bob's
\* invitation: each is in the other's list once, and alice's invitation to
\* bob is still pending for him to accept.
C40_Witness ==
    /\ last.op = "accept_invite" /\ last.user = str(2) /\ last.arg = str(9)
    /\ disk.users[str(2)].friends = <<str(9)>>
    /\ disk.users[str(9)].friends = <<str(2)>>
    /\ str(9) \in DOMAIN disk.invites
    /\ disk.invites[str(9)].from_id = str(2)

====
